---- MODULE Spec2Model ----
(***************************************************************************)
(* RepoCoder: the persistent, incremental repository index                 *)
(* (src/persistent_indexer.py) and the /index handler of the HTTP server   *)
(* (src/app.py).                                                           *)
(*                                                                         *)
(* A file tree of a few tracked paths is written, deleted and chmod-ed by  *)
(* the environment; PersistentRepoIndexer.build() brings the two ShibuDB   *)
(* spaces (key-value metadata space, vector space) up to date with it.     *)
(* build() is split where the code iterates: the start (connect, load,     *)
(* change detection, removal of deleted files), one step per file of       *)
(* files_to_process, and the final save.                                   *)
(*                                                                         *)
(* Modelling decisions:                                                    *)
(*  - a path is the sequence of its segments below the repository root;    *)
(*    strings derived from it (relative path, absolute path, store keys)   *)
(*    are computed by joining the segments as the code does;               *)
(*  - a text is a sequence of one-character strings;                       *)
(*  - md5 is collision free: the digest of a value is the value, tagged;   *)
(*  - embed() is an opaque deterministic function of the prepared text;    *)
(*  - the file tree does not change while a build is in flight;            *)
(*  - rglob yields the files in the fixed order ScanOrder.                 *)
(***************************************************************************)
EXTENDS Integers, Sequences, FiniteSets, TLC

\* ------------------------------------------------------------------ bounds

\* The logical clock stops here: every environment event and every start of a
\* build takes one tick.
MaxTime == 3
\* Embedding calls and vector inserts that fail, over a whole run.
MaxFaults == 1

\* ------------------------------------------------------- program constants

\* max_chunk_chars and overlap, scaled down from the defaults 1600 / 200.
max_chunk_chars == 2
overlap == 1
\* chunk.text[:1000] in the stored chunk metadata.
TextStoreLimit == 1000

\* ----------------------------------------------------------- the universe

\* Location of the repository and the paths the environment may create.
RepoRoot == <<"home", "repo">>
Files == { <<"a", "b.py">>, <<"a_b.py">>, <<"c.py">> }
ScanOrder == << <<"a_b.py">>, <<"c.py">>, <<"a", "b.py">> >>

\* Contents a file may have: empty, whitespace only, one chunk, two chunks.
Texts == { <<>>, <<" ">>, <<"x">>, <<"x", "y", "z">> }
\* Contents of the files that are in the repository before its first build.
InitTexts == { <<"x">>, <<"x", "y", "z">> }

\* The indexer objects: the one the server holds, and those POST /index creates.
App == "app"
Requests == {"req1", "req2"}
Indexers == {App} \cup Requests

VARIABLES
    fs,             \* the file tree: path -> [text, mtime, readable]
    now,            \* logical clock
    storeUp,        \* whether ShibuDB accepts connections
    meta,           \* the key-value metadata space: key -> value
    vectors,        \* the vector space: vector id -> vector
    file_metadata,  \* per indexer: self.file_metadata, an insertion-ordered dict
    client,         \* per indexer: self.client is not None
    pc,             \* per indexer: "idle" or "indexing" (inside build's file loop)
    todo,           \* per indexer: the rest of files_to_process
    hist,           \* history of the last build, for the properties
    detected,       \* what _get_changed_files returned, when it is run on its own
    chunk_args,     \* the text and the settings a chunker is called with
    chunk_out,      \* the chunks it returned
    file_tree,      \* CoreIndexer.file_tree
    core_chunks,    \* CoreIndexer.chunks
    prev_chunks,    \* CoreIndexer.chunks as the extraction before the last left them
    config,         \* the optional arguments RepoCoderPipeline was made with
    chunk_embeddings, \* ContextRetriever.chunk_embeddings
    step,           \* where RepoCoderPipeline.query() stands
    request,        \* the arguments of the query() in progress
    query_analysis, \* query(): query_analysis
    routing_decision, \* query(): routing_decision
    context,        \* query(): context
    result,         \* what query() returned
    calls,          \* the calls query() has made to the retriever and the language models
    index_at_query, \* the index as it was when query() was called
    call_args,      \* the arguments a function is called with, when it is run on its own
    call_out        \* how far the call has come: the state of its loop, or what it returned

idxVars == <<fs, now, storeUp, meta, vectors, file_metadata, client, pc, todo, hist>>
queryVars == <<step, request, query_analysis, routing_decision, context, result, calls,
               index_at_query>>
pipeVars == <<config, chunk_embeddings, queryVars>>
fnVars == <<call_args, call_out>>

vars == <<fs, now, storeUp, meta, vectors, file_metadata, client, pc, todo, hist,
          detected, chunk_args, chunk_out, file_tree, core_chunks, prev_chunks, pipeVars,
          fnVars>>

\* What an operation returned is kept as a list of one; it is empty before the
\* operation has run.
None == <<>>

\* The state of the components that take no part in the builds of the persistent
\* indexer, and its value while they are not used.
coreVars == <<file_tree, core_chunks, prev_chunks>>
extVars == <<detected, chunk_args, chunk_out, coreVars, pipeVars, fnVars>>
\* A CoreIndexer as its constructor leaves it.
CoreIdle ==
    /\ file_tree = <<>>
    /\ core_chunks = <<>>
    /\ prev_chunks = None
\* No query() has been called.
QueryIdle ==
    /\ step = "idle"
    /\ request = None
    /\ query_analysis = None
    /\ routing_decision = None
    /\ context = None
    /\ result = None
    /\ calls = <<>>
    /\ index_at_query = None
\* A pipeline made with none of the optional arguments, as __init__ leaves it.
PipeIdle ==
    /\ config = [use_llm_routing |-> FALSE, routing_llm |-> FALSE, embedder |-> FALSE,
                 llm_executor |-> FALSE]
    /\ chunk_embeddings = <<>>
    /\ QueryIdle
\* No function is run on its own.
FnIdle ==
    /\ call_args = None
    /\ call_out = None
ExtIdle ==
    /\ detected = None
    /\ chunk_args = None
    /\ chunk_out = None
    /\ CoreIdle
    /\ PipeIdle
    /\ FnIdle

\* ------------------------------------------------------------ small helpers

Min(a, b) == IF a <= b THEN a ELSE b
Max(a, b) == IF a >= b THEN a ELSE b

RECURSIVE Join(_, _)
Join(s, sep) ==
    IF Len(s) = 0 THEN ""
    ELSE IF Len(s) = 1 THEN s[1]
    ELSE s[1] \o sep \o Join(Tail(s), sep)

Range(s) == { s[k] : k \in 1..Len(s) }

\* A key-value space: put overwrites, delete of a missing key is a no-op.
Put(m, k, v) == [x \in DOMAIN m \cup {k} |-> IF x = k THEN v ELSE m[x]]
Del(m, k) == [x \in DOMAIN m \ {k} |-> m[x]]
Has(m, k) == k \in DOMAIN m
Empty == [x \in {} |-> 0]

\* ------------------------------------------------------------------- paths

\* str(file_path.relative_to(self.repo_root)) and str(file_path).
RelPath(p) == Join(p, "/")
AbsPath(p) == "/" \o Join(RepoRoot \o p, "/")

\* path.replace('/', '_').replace('\\', '_') prefixed with file_meta_.
SafeKey(p) == "file_meta_" \o Join(p, "_")
FileChunksKey(p) == "file_chunks_" \o RelPath(p)
ChunkKey(id) == "chunk_" \o id
ListKey == "file_metadata_list"

\* The path a relative-path string names (the code goes through pathlib).
PathOf(rel) == CHOOSE p \in Files : RelPath(p) = rel

\* pathlib suffix of the last segment, lower-cased.
Suffix(p) == IF p[Len(p)] \in {"b.py", "a_b.py", "c.py"} THEN ".py" ELSE ""
CODE_EXTS == {".py", ".js", ".ts"}
IGNORE_DIRS == {".git", "node_modules", "build", "tmp"}

\* _should_index: applied to the absolute path rglob yields, which lies under the
\* resolved repo_root.
ShouldIndexUnder(root, p) ==
    /\ \A k \in 1..Len(root \o p) : (root \o p)[k] \notin IGNORE_DIRS
    /\ Suffix(p) \in CODE_EXTS
ShouldIndex(p) == ShouldIndexUnder(RepoRoot, p)

\* ------------------------------------------------------------ the file tree

\* not text.strip(): the text holds nothing but whitespace.
Blank(t) == \A k \in 1..Len(t) : t[k] \in {" ", "\n", "\t"}

\* _get_file_hash: the digest of the content, "" when the file cannot be read.
GetFileHash(p) == IF fs[p].readable THEN <<"md5", fs[p].text>> ELSE <<>>

\* _get_file_metadata: the fingerprint of the file as it is now.
GetFileMetadata(p, t) ==
    [path |-> RelPath(p), size |-> Len(fs[p].text), mtime |-> fs[p].mtime,
     hash |-> GetFileHash(p), indexed_at |-> t, chunk_count |-> 0]

\* ------------------------------------------- self.file_metadata (a dict)

FmKeys(fm) == { fm[k].key : k \in 1..Len(fm) }
FmHas(fm, rel) == rel \in FmKeys(fm)
FmGet(fm, rel) == fm[CHOOSE k \in 1..Len(fm) : fm[k].key = rel].val
FmSet(fm, rel, v) ==
    IF FmHas(fm, rel)
    THEN [k \in 1..Len(fm) |-> IF fm[k].key = rel THEN [key |-> rel, val |-> v] ELSE fm[k]]
    ELSE Append(fm, [key |-> rel, val |-> v])
RECURSIVE FmDel(_, _)
FmDel(fm, rel) ==
    IF fm = <<>> THEN <<>>
    ELSE IF Head(fm).key = rel THEN FmDel(Tail(fm), rel)
    ELSE <<Head(fm)>> \o FmDel(Tail(fm), rel)

\* The stored form of a FileMetadata, "path|size|mtime|hash|indexed_at|chunk_count",
\* as the list of its '|'-separated parts, and the parse of such a list.
FormatMeta(v) == <<v.path, v.size, v.mtime, v.hash, v.indexed_at, v.chunk_count>>
ParseMeta(parts) ==
    [path |-> parts[1], size |-> parts[2], mtime |-> parts[3],
     hash |-> parts[4], indexed_at |-> parts[5], chunk_count |-> parts[6]]

\* _load_file_metadata: the dict after loading, given the dict before.
RECURSIVE LoadEntries(_, _)
LoadEntries(paths, fm) ==
    IF paths = <<>> THEN fm
    ELSE LET rel == Head(paths)
             key == SafeKey(PathOf(rel))
             fm2 == IF Has(meta, key) /\ Len(meta[key]) = 6
                    THEN FmSet(fm, rel, ParseMeta(meta[key]))
                    ELSE fm
         IN  LoadEntries(Tail(paths), fm2)

LoadFileMetadata(fm, cl) ==
    IF ~cl THEN fm
    ELSE IF ~Has(meta, ListKey) THEN <<>>
    ELSE LoadEntries(meta[ListKey], <<>>)

\* _save_file_metadata, on a store state S = [fm, meta, vectors, writes, embeds].
RECURSIVE SaveEntries(_, _)
SaveEntries(S, k) ==
    IF k > Len(S.fm) THEN S
    ELSE LET e == S.fm[k]
         IN  SaveEntries([S EXCEPT !.meta = Put(@, SafeKey(PathOf(e.key)), FormatMeta(e.val)),
                                   !.writes = @ + 1], k + 1)

SaveFileMetadata(S, cl) ==
    IF ~cl THEN S
    ELSE LET S1 == SaveEntries(S, 1)
         IN  [S1 EXCEPT !.meta = Put(@, ListKey, [k \in 1..Len(S.fm) |-> S.fm[k].key]),
                        !.writes = @ + 1]

\* --------------------------------------------------------- change detection

Tracked == { p \in DOMAIN fs : ShouldIndex(p) }

IsNew(fm, p) == p \in Tracked /\ ~FmHas(fm, RelPath(p))
\* As IsModified, had the detector left the modification time out of the test.
IsModifiedNoMtime(fm, p) ==
    /\ p \in Tracked
    /\ FmHas(fm, RelPath(p))
    /\ LET current == GetFileMetadata(p, 0)
           stored == FmGet(fm, RelPath(p))
       IN  \/ current.size # stored.size
           \/ current.hash # stored.hash

IsModified(fm, p) ==
    /\ p \in Tracked
    /\ FmHas(fm, RelPath(p))
    /\ LET current == GetFileMetadata(p, 0)
           stored == FmGet(fm, RelPath(p))
       IN  \/ current.size # stored.size
           \/ current.mtime # stored.mtime
           \/ current.hash # stored.hash

RECURSIVE ScanNew(_, _)
ScanNew(fm, order) ==
    IF order = <<>> THEN <<>>
    ELSE (IF IsNew(fm, Head(order)) THEN <<Head(order)>> ELSE <<>>) \o ScanNew(fm, Tail(order))
RECURSIVE ScanModified(_, _)
ScanModified(fm, order) ==
    IF order = <<>> THEN <<>>
    ELSE (IF IsModified(fm, Head(order)) THEN <<Head(order)>> ELSE <<>>)
         \o ScanModified(fm, Tail(order))
RECURSIVE ScanDeleted(_)
ScanDeleted(fm) ==
    IF fm = <<>> THEN <<>>
    ELSE (IF Head(fm).key \notin { RelPath(p) : p \in Tracked } THEN <<Head(fm).key>> ELSE <<>>)
         \o ScanDeleted(Tail(fm))

\* _get_changed_files
GetChangedFiles(fm) ==
    [new |-> ScanNew(fm, ScanOrder),
     modified |-> ScanModified(fm, ScanOrder),
     deleted |-> ScanDeleted(fm)]

\* ----------------------------------------------------------------- chunking

\* The while loop of _index_file from offset i on.
RECURSIVE ChunkLoop(_, _, _)
ChunkLoop(p, text, i) ==
    LET n == Len(text)
        j == Min(i + max_chunk_chars, n)
        piece == SubSeq(text, i + 1, j)
        this == IF ~Blank(piece)
                THEN << [path |-> AbsPath(p), start |-> i, end |-> j, text |-> piece] >>
                ELSE <<>>
        next == Max(j - overlap, 0)
    IN  IF j >= n \/ next >= n THEN this ELSE this \o ChunkLoop(p, text, next)

\* _index_file: the chunks of the file as it is now; none when it cannot be
\* read or holds only whitespace.
IndexFile(p) ==
    IF ~fs[p].readable THEN <<>>
    ELSE IF Blank(fs[p].text) THEN <<>>
    ELSE ChunkLoop(p, fs[p].text, 0)

\* ------------------------------------------------------ storing and removing

\* int(md5(f"{path}_{start}_{end}")[:8], 16)
VectorId(chunk) == chunk.path \o "_" \o ToString(chunk.start) \o "_" \o ToString(chunk.end)

\* _prep_embed_text: header with relative path and span, then the chunk text.
PrepEmbedText(p, chunk) == <<RelPath(p), chunk.start, chunk.end, chunk.text>>
Embed(text) == <<"vec", text>>

ChunkMeta(chunk) ==
    [path |-> chunk.path, start |-> chunk.start, end |-> chunk.end,
     text |-> SubSeq(chunk.text, 1, Min(Len(chunk.text), TextStoreLimit)),
     vector_id |-> VectorId(chunk), chunk_hash |-> VectorId(chunk)]

\* What can happen inside _store_chunks_in_shibudb.
Outcomes == {"ok", "embed_raises", "insert_rejected"}

RECURSIVE StoreEach(_, _, _, _)
StoreEach(S, p, chunks, outcome) ==
    IF chunks = <<>> THEN S
    ELSE LET c == Head(chunks)
             id == VectorId(c)
             v == IF outcome = "insert_rejected" THEN S.vectors
                  ELSE Put(S.vectors, id, Embed(PrepEmbedText(p, c)))
             S2 == [S EXCEPT !.vectors = v,
                             !.meta = Put(@, ChunkKey(id), ChunkMeta(c)),
                             !.writes = @ + (IF outcome = "insert_rejected" THEN 1 ELSE 2)]
         IN  StoreEach(S2, p, Tail(chunks), outcome)

\* _store_chunks_in_shibudb
StoreChunksInShibudb(S, cl, p, chunks, outcome) ==
    IF ~cl \/ chunks = <<>> THEN S
    ELSE IF outcome = "embed_raises" THEN [S EXCEPT !.embeds = @ + 1]
    ELSE LET S1 == StoreEach([S EXCEPT !.embeds = @ + 1], p, chunks, outcome)
         IN  [S1 EXCEPT !.meta = Put(@, FileChunksKey(p),
                                     [k \in 1..Len(chunks) |-> VectorId(chunks[k])]),
                        !.writes = @ + 1]

RECURSIVE DeleteChunkMeta(_, _)
DeleteChunkMeta(S, ids) ==
    IF ids = <<>> THEN S
    ELSE DeleteChunkMeta([S EXCEPT !.meta = Del(@, ChunkKey(Head(ids))), !.writes = @ + 1],
                         Tail(ids))

\* _remove_file_from_index
RemoveFileFromIndex(S, cl, rel) ==
    IF ~cl THEN S
    ELSE LET p == PathOf(rel)
             S1 == IF FmHas(S.fm, rel)
                   THEN [S EXCEPT !.fm = FmDel(@, rel),
                                  !.meta = Del(@, SafeKey(p)),
                                  !.writes = @ + 1]
                   ELSE S
         IN  IF Has(S1.meta, FileChunksKey(p))
             THEN LET S2 == DeleteChunkMeta(S1, S1.meta[FileChunksKey(p)])
                  IN  [S2 EXCEPT !.meta = Del(@, FileChunksKey(p)), !.writes = @ + 1]
             ELSE S1

RECURSIVE RemoveAll(_, _, _)
RemoveAll(S, cl, rels) ==
    IF rels = <<>> THEN S
    ELSE RemoveAll(RemoveFileFromIndex(S, cl, Head(rels)), cl, Tail(rels))

\* ------------------------------------------------------------ read interface

\* retrieve: the chunks some query and some top_k can return.
Retrieve(i) ==
    IF ~client[i] THEN {}
    ELSE { [path |-> meta[ChunkKey(id)].path, start |-> meta[ChunkKey(id)].start,
            end |-> meta[ChunkKey(id)].end, text |-> meta[ChunkKey(id)].text] :
           id \in { x \in DOMAIN vectors : Has(meta, ChunkKey(x)) } }

RECURSIVE SumChunkCount(_)
SumChunkCount(fm) ==
    IF fm = <<>> THEN 0 ELSE Head(fm).val.chunk_count + SumChunkCount(Tail(fm))

\* get_stats
GetStats(i) ==
    [total_files |-> Len(file_metadata[i]),
     total_chunks |-> SumChunkCount(file_metadata[i]),
     shibudb_connected |-> client[i]]

\* -------------------------------------------------------------------- Init

Fresh == [fm |-> <<>>, meta |-> Empty, vectors |-> Empty]

\* The repository holds some files, written at time 0; the store is empty, and
\* up or down; no indexer has built anything.
Init ==
    /\ \E present \in SUBSET Files :
          fs \in [present -> [text : InitTexts, mtime : {0}, readable : {TRUE}]]
    /\ now = 0
    /\ storeUp \in BOOLEAN
    /\ meta = Empty
    /\ vectors = Empty
    /\ file_metadata = [i \in Indexers |-> <<>>]
    /\ client = [i \in Indexers |-> FALSE]
    /\ pc = [i \in Indexers |-> "idle"]
    /\ todo = [i \in Indexers |-> <<>>]
    /\ hist = [pre |-> Fresh,         \* dict after the build before, store at the start
               loaded |-> <<>>,       \* dict the last build had after _load_file_metadata
               lastFm |-> <<>>,       \* dict at the end of the last completed build
               dirty |-> {},          \* paths the environment changed since the last start
               changed |-> {},        \* the same, as it was at the last start
               cycle |-> {},          \* files_to_process of the last build
               failed |-> {},         \* paths whose read, embedding or insert failed in it
               embedded |-> {},       \* paths chunked, embedded and stored at least once
               embeds |-> 0,          \* embedding calls of the last build
               writes |-> 0,          \* store writes of the last build
               faults |-> 0,          \* embedding and insert failures so far
               force |-> FALSE, connected |-> FALSE,
               prevForce |-> FALSE, prevConnected |-> FALSE,
               seen |-> DOMAIN fs,    \* paths that have been in the tree
               sameProcess |-> TRUE,  \* no new process since the last build began
               done |-> 0]            \* completed builds, counted up to 2
    /\ ExtIdle

\* --------------------------------------------------------- the environment

\* No build is in flight.
Quiescent == \A i \in Indexers : pc[i] = "idle"

Tick == now < MaxTime /\ now' = now + 1

\* The environment creates a file or overwrites it (with any content, also the
\* content it has: a touch).
WriteFile(p, t) ==
    /\ Quiescent /\ Tick
    /\ fs' = Put(fs, p, [text |-> t, mtime |-> now + 1,
                         readable |-> IF p \in DOMAIN fs THEN fs[p].readable ELSE TRUE])
    /\ hist' = [hist EXCEPT !.dirty = @ \cup {p}, !.seen = @ \cup {p}]
    /\ UNCHANGED <<storeUp, meta, vectors, file_metadata, client, pc, todo>> /\ UNCHANGED extVars

DeleteFile(p) ==
    /\ Quiescent /\ Tick
    /\ p \in DOMAIN fs
    /\ fs' = Del(fs, p)
    /\ hist' = [hist EXCEPT !.dirty = @ \cup {p}]
    /\ UNCHANGED <<storeUp, meta, vectors, file_metadata, client, pc, todo>> /\ UNCHANGED extVars

\* The environment takes away or gives back the permission to read a file.
Chmod(p) ==
    /\ Quiescent /\ Tick
    /\ p \in DOMAIN fs
    /\ fs' = [fs EXCEPT ![p].readable = ~@]
    /\ hist' = [hist EXCEPT !.dirty = @ \cup {p}]
    /\ UNCHANGED <<storeUp, meta, vectors, file_metadata, client, pc, todo>> /\ UNCHANGED extVars

\* ShibuDB goes down or comes back.
StoreToggle ==
    /\ Quiescent /\ Tick
    /\ storeUp' = ~storeUp
    /\ UNCHANGED <<fs, meta, vectors, file_metadata, client, pc, todo, hist>> /\ UNCHANGED extVars

\* A new process constructs a new PersistentRepoIndexer (__init__).
NewProcess ==
    /\ Quiescent /\ Tick
    /\ file_metadata[App] # <<>> \/ client[App]
    /\ file_metadata' = [file_metadata EXCEPT ![App] = <<>>]
    /\ client' = [client EXCEPT ![App] = FALSE]
    /\ hist' = [hist EXCEPT !.sameProcess = FALSE]
    /\ UNCHANGED <<fs, storeUp, meta, vectors, pc, todo>> /\ UNCHANGED extVars

\* ------------------------------------------------------------------- build

\* An attribute of the indexer objects after indexer i has set its own to v. When
\* that ends the build of an /index request, reindex() goes on to
\* indexer = new_indexer: the process then holds the request's object, and the
\* request's slot is free again.
Held(i, returns, attr, v, free) ==
    [j \in Indexers |->
        IF i \in Requests /\ returns
        THEN (IF j = App THEN v ELSE IF j = i THEN free ELSE attr[j])
        ELSE (IF j = i THEN v ELSE attr[j])]

\* build() up to the file loop: _connect_shibudb, _load_file_metadata, the
\* force_rebuild reset, _get_changed_files, the removal of the deleted files, and
\* the early return when there is nothing to process.
BuildBegin(i, fmBefore, force) ==
    LET cl == storeUp
        fm0 == LoadFileMetadata(fmBefore, cl)
        fm1 == IF force THEN <<>> ELSE fm0
        ch == GetChangedFiles(fm1)
        S1 == RemoveAll([fm |-> fm1, meta |-> meta, vectors |-> vectors,
                         writes |-> 0, embeds |-> 0], cl, ch.deleted)
        files == ch.new \o ch.modified
    IN  /\ pc[i] = "idle"
        /\ Tick
        /\ client' = Held(i, files = <<>>, client, cl, FALSE)
        /\ file_metadata' = Held(i, files = <<>>, file_metadata, S1.fm, <<>>)
        /\ meta' = S1.meta
        /\ vectors' = S1.vectors
        /\ todo' = [todo EXCEPT ![i] = files]
        /\ pc' = [pc EXCEPT ![i] = IF files = <<>> THEN "idle" ELSE "indexing"]
        /\ hist' = [hist EXCEPT
                      !.pre = [fm |-> hist.lastFm, meta |-> meta, vectors |-> vectors],
                      !.loaded = fm0,
                      !.changed = hist.dirty, !.dirty = {},
                      !.cycle = Range(files), !.failed = {},
                      !.embeds = 0, !.writes = S1.writes,
                      !.force = force, !.connected = cl,
                      !.prevForce = hist.force, !.prevConnected = hist.connected,
                      !.sameProcess = TRUE,
                      !.lastFm = IF files = <<>> THEN S1.fm ELSE @,
                      !.done = IF files = <<>> THEN Min(@ + 1, 2) ELSE @]
        /\ UNCHANGED <<fs, storeUp>> /\ UNCHANGED extVars

\* indexer.build(force_rebuild) on the indexer the process holds.
Build(force) == BuildBegin(App, file_metadata[App], force)

\* One iteration of the file loop of build(): _index_file, then, if it gave
\* chunks, _store_chunks_in_shibudb and the update of self.file_metadata.
BuildFile(i, outcome) ==
    /\ pc[i] = "indexing"
    /\ todo[i] # <<>>
    /\ LET p == Head(todo[i])
           chunks == IndexFile(p)
           stores == client[i] /\ chunks # <<>>
           S == [fm |-> file_metadata[i], meta |-> meta, vectors |-> vectors,
                 writes |-> hist.writes, embeds |-> hist.embeds]
           S1 == StoreChunksInShibudb(S, client[i], p, chunks, outcome)
           S2 == IF chunks # <<>>
                 THEN [S1 EXCEPT !.fm = FmSet(@, RelPath(p),
                           [GetFileMetadata(p, now) EXCEPT !.chunk_count = Len(chunks)])]
                 ELSE S
       IN  /\ outcome # "ok" => stores /\ hist.faults < MaxFaults
           /\ file_metadata' = [file_metadata EXCEPT ![i] = S2.fm]
           /\ meta' = S2.meta
           /\ vectors' = S2.vectors
           /\ hist' = [hist EXCEPT
                         !.embeds = S2.embeds, !.writes = S2.writes,
                         !.faults = IF outcome # "ok" THEN @ + 1 ELSE @,
                         !.failed = IF ~fs[p].readable \/ outcome # "ok"
                                    THEN @ \cup {p} ELSE @,
                         !.embedded = IF stores /\ outcome = "ok" THEN @ \cup {p} ELSE @]
    /\ todo' = [todo EXCEPT ![i] = Tail(@)]
    /\ UNCHANGED <<fs, now, storeUp, client, pc>> /\ UNCHANGED extVars

\* The end of build(): _save_file_metadata, and the return.
BuildSave(i) ==
    /\ pc[i] = "indexing"
    /\ todo[i] = <<>>
    /\ LET S == [fm |-> file_metadata[i], meta |-> meta, vectors |-> vectors,
                 writes |-> hist.writes, embeds |-> hist.embeds]
           S1 == SaveFileMetadata(S, client[i])
       IN  /\ meta' = S1.meta
           /\ hist' = [hist EXCEPT !.writes = S1.writes,
                                   !.lastFm = file_metadata[i],
                                   !.done = Min(@ + 1, 2)]
    /\ pc' = [pc EXCEPT ![i] = "idle"]
    /\ file_metadata' = Held(i, TRUE, file_metadata, file_metadata[i], <<>>)
    /\ client' = Held(i, TRUE, client, client[i], FALSE)
    /\ UNCHANGED <<fs, now, storeUp, vectors, todo>> /\ UNCHANGED extVars

\* ------------------------------------------------------------ POST /index

\* reindex(): a new PersistentRepoIndexer, then new_indexer.build(force_rebuild=True)
\* (its file loop and its save are BuildFile and BuildSave of the request). The
\* server runs the handler of each request on a thread of its own.
ReindexStart(r) == BuildBegin(r, <<>>, TRUE)

\* ------------------------------------------------------- the specifications

\* One indexer, its builds one after the other.
Next ==
    \/ \E p \in Files, t \in Texts : WriteFile(p, t)
    \/ \E p \in Files : DeleteFile(p)
    \/ \E p \in Files : Chmod(p)
    \/ StoreToggle
    \/ NewProcess
    \/ \E force \in BOOLEAN : Build(force)
    \/ \E o \in Outcomes : BuildFile(App, o)
    \/ BuildSave(App)

Spec == Init /\ [][Next]_vars

\* The server: files are deleted between requests, and the server handles the
\* /index requests it receives concurrently.
NextServer ==
    \/ \E p \in Files : DeleteFile(p)
    \/ \E r \in Requests : ReindexStart(r)
    \/ \E r \in Requests, o \in Outcomes : BuildFile(r, o)
    \/ \E r \in Requests : BuildSave(r)

SpecServer == Init /\ [][NextServer]_vars

\* ------------------------------------------------------------- properties

\* The last build of the process's indexer has returned, nothing has touched the
\* tree since it began, and the process is the one that ran it.
AfterBuild ==
    /\ Quiescent
    /\ hist.done >= 1
    /\ hist.dirty = {}
    /\ hist.sameProcess

\* The build that returned last was a build(force_rebuild=False) that began with
\* the tree as the build before it (also complete, also not forced) had found it,
\* and ShibuDB was reachable in both.
AfterSecondBuild ==
    /\ AfterBuild
    /\ hist.done >= 2
    /\ ~hist.force /\ ~hist.prevForce
    /\ hist.changed = {}
    /\ hist.connected /\ hist.prevConnected

\* No two paths that have been in the tree share a metadata key.
KeysDistinct == \A p, q \in hist.seen : p # q => SafeKey(p) # SafeKey(q)

\* Every file of the tree can be read and gives at least one chunk.
AllGiveChunks == \A p \in DOMAIN fs : IndexFile(p) # <<>>

\* The vector ids and chunk-metadata keys the store holds for a path.
Spans == { <<s, e>> \in (0..3) \X (0..3) : s < e }
IdsOf(p) ==
    { VectorId([path |-> AbsPath(p), start |-> sp[1], end |-> sp[2]]) : sp \in Spans }
VectorsOf(p) == { id \in IdsOf(p) : Has(vectors, id) }
ChunkMetasOf(p) == { id \in IdsOf(p) : Has(meta, ChunkKey(id)) }

\* C1: a second build(force_rebuild=False) with no filesystem change in between
\* issues no embedding call and leaves the FileRecord map as the first build left it.
C1_SecondBuildIdempotent ==
    (AfterSecondBuild /\ hist.faults = 0) =>
        /\ hist.embeds = 0
        /\ file_metadata[App] = hist.pre.fm

\* C2: a second build(force_rebuild=False) with no filesystem change in between
\* writes nothing to the metadata store and nothing to the vector store, also when
\* the tree holds tracked files that give no chunks.
C2_SecondBuildWritesNothing ==
    (AfterSecondBuild /\ KeysDistinct) =>
        /\ hist.writes = 0
        /\ meta = hist.pre.meta
        /\ vectors = hist.pre.vectors

CurrentIds(p) == { VectorId(c) : c \in Range(IndexFile(p)) }

\* A dict entry, and a store entry, as a list of none or one.
RecordOf(fm, p) == IF FmHas(fm, RelPath(p)) THEN <<FmGet(fm, RelPath(p))>> ELSE <<>>
Lookup(m, k) == IF Has(m, k) THEN <<m[k]>> ELSE <<>>

\* C4: after the content of a tracked file has changed and build() has completed,
\* the chunks and vectors stored for the file are exactly those of its current
\* content; those of earlier versions with other spans are gone and are not
\* retrievable.
C4_RechunkReplacesOldChunks ==
    (AfterBuild /\ hist.connected /\ KeysDistinct /\ AllGiveChunks /\ hist.faults = 0) =>
        \A p \in hist.changed \cap DOMAIN fs :
          FmHas(hist.pre.fm, RelPath(p)) =>
            /\ VectorsOf(p) = CurrentIds(p)
            /\ ChunkMetasOf(p) = CurrentIds(p)
            /\ \A c \in Retrieve(App) :
                 c.path = AbsPath(p) => VectorId(c) \in CurrentIds(p)

\* C5: when file A is modified and file B is left untouched between two builds,
\* B's FileRecord, chunk entries and vectors are the same before and after the
\* second build.
C5_UntouchedFileUnchanged ==
    (AfterBuild /\ hist.done >= 2 /\ ~hist.force /\ hist.connected /\ hist.prevConnected
       /\ hist.faults = 0) =>
        \A A \in hist.changed \cap DOMAIN fs : \A B \in DOMAIN fs \ hist.changed :
          FmHas(hist.pre.fm, RelPath(A)) =>
            /\ RecordOf(file_metadata[App], B) = RecordOf(hist.pre.fm, B)
            /\ Lookup(meta, SafeKey(B)) = Lookup(hist.pre.meta, SafeKey(B))
            /\ Lookup(meta, FileChunksKey(B)) = Lookup(hist.pre.meta, FileChunksKey(B))
            /\ \A id \in IdsOf(B) :
                 /\ Lookup(meta, ChunkKey(id)) = Lookup(hist.pre.meta, ChunkKey(id))
                 /\ Lookup(vectors, id) = Lookup(hist.pre.vectors, id)

\* C6: after every completed build, whatever happened before and whether the
\* store is reachable or not, a FileRecord exists for a path exactly if the file
\* was chunked and embedded at least once and is in the tree.
C6_RecordIffIndexedAndPresent ==
    AfterBuild =>
        \A p \in Files :
            FmHas(file_metadata[App], RelPath(p)) <=> (p \in hist.embedded /\ p \in Tracked)

\* C7: when reading, embedding or storing a new or modified file fails during
\* build(), the file's FileRecord after the build is its FileRecord before the
\* build (none if it had none), so the next build finds the file new or modified
\* again.
C7_FailedFileKeepsRecord ==
    (AfterBuild /\ ~hist.force /\ KeysDistinct) =>
        \A p \in hist.failed :
            /\ RecordOf(file_metadata[App], p) = RecordOf(hist.loaded, p)
            /\ IsNew(file_metadata[App], p) \/ IsModified(file_metadata[App], p)

\* A file's FileRecord carries the fingerprint and the chunk count it has now.
UpToDate(fm, p) ==
    /\ FmHas(fm, RelPath(p))
    /\ ~IsModified(fm, p)
    /\ FmGet(fm, RelPath(p)).chunk_count = Len(IndexFile(p))

\* The store holds the dict: the manifest lists its paths and each path's key
\* holds its record.
Persisted(fm) ==
    /\ Has(meta, ListKey)
    /\ Range(meta[ListKey]) = FmKeys(fm)
    /\ \A rel \in FmKeys(fm) :
         /\ Has(meta, SafeKey(PathOf(rel)))
         /\ ParseMeta(meta[SafeKey(PathOf(rel))]) = FmGet(fm, rel)

\* C8: a read or embedding failure on one file does not abort build(): every other
\* file of the build cycle is chunked, embedded and given an up-to-date FileRecord,
\* and the FileRecord map is persisted at the end of the build (stated for builds
\* that reached ShibuDB and for trees whose metadata keys are distinct).
C8_FailureDoesNotAbort ==
    (AfterBuild /\ hist.failed # {} /\ hist.connected /\ KeysDistinct) =>
        /\ \A q \in hist.cycle \ hist.failed :
             /\ UpToDate(file_metadata[App], q)
             /\ CurrentIds(q) \subseteq VectorsOf(q)
             /\ CurrentIds(q) \subseteq ChunkMetasOf(q)
        /\ Persisted(file_metadata[App])

\* C9: when the store is unreachable as build() starts, build() returns, get_stats
\* reports the store as not connected, and retrieve() returns the chunks of the
\* files the build processed.
C9_FallbackServesChunks ==
    (AfterBuild /\ ~hist.connected) =>
        /\ ~GetStats(App).shibudb_connected
        /\ \A p \in hist.cycle : \A c \in Range(IndexFile(p)) : c \in Retrieve(App)

\* C10: at most one build that is connected to the store is in flight at any time,
\* the builds of /index requests included.
C10_OneBuildInFlight ==
    Cardinality({ i \in Indexers : pc[i] = "indexing" /\ client[i] }) <= 1

\* C11: a tracked file whose mtime changed while its size and content hash are
\* those of its FileRecord (a touch) is not among the files the next build()
\* chunks and embeds.
C11_TouchNotReembedded ==
    (AfterBuild /\ ~hist.force /\ hist.connected /\ hist.faults = 0 /\ KeysDistinct) =>
        \A p \in Tracked :
            (/\ FmHas(hist.loaded, RelPath(p))
             /\ FmGet(hist.loaded, RelPath(p)).size = GetFileMetadata(p, 0).size
             /\ FmGet(hist.loaded, RelPath(p)).hash = GetFileMetadata(p, 0).hash
             /\ FmGet(hist.loaded, RelPath(p)).mtime # GetFileMetadata(p, 0).mtime)
            => ~(p \in hist.cycle /\ IndexFile(p) # <<>>)

\* ------------------------------------------- the change detector on its own

\* The value of the persistent indexer's state while another component is run.
IdxIdle ==
    /\ now = 0
    /\ storeUp = FALSE
    /\ meta = Empty
    /\ vectors = Empty
    /\ client = [i \in Indexers |-> FALSE]
    /\ pc = [i \in Indexers |-> "idle"]
    /\ todo = [i \in Indexers |-> <<>>]
    /\ hist = None

\* The dict that holds, in the order given, the record rec[p] of each path of
\* DOMAIN rec.
RECURSIVE DictOf(_, _)
DictOf(rec, order) ==
    IF order = <<>> THEN <<>>
    ELSE (IF Head(order) \in DOMAIN rec
          THEN <<[key |-> RelPath(Head(order)), val |-> rec[Head(order)]]>>
          ELSE <<>>) \o DictOf(rec, Tail(order))

\* Any tree (files written at time 0 or 1, readable or not) and any FileRecord
\* map whose records were made at time 0 of some readable content.
InitDetect ==
    /\ \E present \in SUBSET Files :
          fs \in [present -> [text : InitTexts, mtime : {0, 1}, readable : BOOLEAN]]
    /\ \E known \in SUBSET Files : \E t \in [known -> InitTexts] :
          file_metadata =
              [i \in Indexers |->
                 IF i = App
                 THEN DictOf([p \in known |->
                                [path |-> RelPath(p), size |-> Len(t[p]), mtime |-> 0,
                                 hash |-> <<"md5", t[p]>>, indexed_at |-> 0,
                                 chunk_count |-> 1]], ScanOrder)
                 ELSE <<>>]
    /\ IdxIdle
    /\ detected = None
    /\ chunk_args = None
    /\ chunk_out = None
    /\ CoreIdle
    /\ PipeIdle
    /\ FnIdle

\* _get_changed_files() of the indexer the process holds.
Detect ==
    /\ detected = None
    /\ detected' = <<GetChangedFiles(file_metadata[App])>>
    /\ UNCHANGED <<fs, now, storeUp, meta, vectors, file_metadata, client, pc, todo, hist>>
    /\ UNCHANGED <<chunk_args, chunk_out, coreVars, pipeVars, fnVars>>

NextDetect == Detect

SpecDetect == InitDetect /\ [][NextDetect]_vars

\* The record the map holds for a path of the tree, and the file's size, mtime
\* and digest as the tree has them.
Stored(p) == FmGet(file_metadata[App], RelPath(p))
Differs(p) ==
    \/ Stored(p).size # Len(fs[p].text)
    \/ Stored(p).mtime # fs[p].mtime
    \/ Stored(p).hash # (IF fs[p].readable THEN <<"md5", fs[p].text>> ELSE <<>>)

\* C12: the change detector returns three pairwise disjoint sets: new is the
\* tracked paths of the tree that have no record, modified is the tracked paths
\* of the tree whose record differs in size, mtime or content hash, and deleted
\* is the paths that have a record and are not in the tree.
C12_ChangeSetsExact ==
    detected # None =>
        LET new == { RelPath(p) : p \in Range(detected[1].new) }
            modified == { RelPath(p) : p \in Range(detected[1].modified) }
            deleted == Range(detected[1].deleted)
            present == { p \in DOMAIN fs : ShouldIndex(p) }
            known == FmKeys(file_metadata[App])
        IN  /\ new = { RelPath(p) : p \in { q \in present : RelPath(q) \notin known } }
            /\ modified =
                 { RelPath(p) : p \in { q \in present : RelPath(q) \in known /\ Differs(q) } }
            /\ deleted = known \ { RelPath(p) : p \in present }
            /\ new \cap modified = {} /\ new \cap deleted = {} /\ modified \cap deleted = {}
            /\ Len(detected[1].new) = Cardinality(new)
            /\ Len(detected[1].modified) = Cardinality(modified)
            /\ Len(detected[1].deleted) = Cardinality(deleted)

\* The detector has run on a tree and a map that give it a new, a modified and a
\* deleted path at once.
C12_Witness ==
    /\ detected # None
    /\ detected[1].new # <<>>
    /\ detected[1].modified # <<>>
    /\ detected[1].deleted # <<>>

\* ---------------------------------------------------------------- the chunkers

\* text.split('\n'): the lines of a text, each a sequence of characters.
RECURSIVE SplitLines(_)
SplitLines(text) ==
    IF \A k \in 1..Len(text) : text[k] # "\n" THEN <<text>>
    ELSE LET k == CHOOSE j \in 1..Len(text) :
                      text[j] = "\n" /\ \A h \in 1..(j - 1) : text[h] # "\n"
         IN  <<SubSeq(text, 1, k - 1)>> \o SplitLines(SubSeq(text, k + 1, Len(text)))

\* '\n'.join(lines)
RECURSIVE JoinLines(_)
JoinLines(lines) ==
    IF lines = <<>> THEN <<>>
    ELSE IF Len(lines) = 1 THEN lines[1]
    ELSE lines[1] \o <<"\n">> \o JoinLines(Tail(lines))

\* sum(len(l) + 1 for l in lines)
RECURSIVE SizeOf(_)
SizeOf(lines) == IF lines = <<>> THEN 0 ELSE Len(Head(lines)) + 1 + SizeOf(Tail(lines))

\* current_chunk[-k:], for k >= 1
LastLines(lines, k) == SubSeq(lines, Max(1, Len(lines) - k + 1), Len(lines))

\* The divisor of "overlap // 50  # Approximate lines for overlap".
OverlapLineChars == 50

\* A CodeChunk as CoreIndexer._chunk_text makes it.
CodeChunk(a, start_line, end_line, current_chunk) ==
    [id |-> "", file_path |-> a.file_path, start_line |-> start_line,
     end_line |-> end_line, content |-> JoinLines(current_chunk),
     language |-> a.language, embedding |-> None,
     metadata |-> [file_size |-> Len(a.text)]]

\* The loop of CoreIndexer._chunk_text over enumerate(lines), from line i on, and
\* the final chunk after it.
RECURSIVE CoreChunkLoop(_, _, _, _, _, _, _)
CoreChunkLoop(a, lines, i, current_chunk, current_size, start_line, chunks) ==
    IF i >= Len(lines)
    THEN IF current_chunk # <<>>
         THEN Append(chunks, CodeChunk(a, start_line, Len(lines), current_chunk))
         ELSE chunks
    ELSE LET line == lines[i + 1]
             line_size == Len(line) + 1
             close == current_size + line_size > a.chunk_size /\ current_chunk # <<>>
             overlap_lines == Max(1, a.overlap \div OverlapLineChars)
             seed == IF Len(current_chunk) > overlap_lines
                     THEN LastLines(current_chunk, overlap_lines)
                     ELSE <<>>
         IN  IF close
             THEN CoreChunkLoop(a, lines, i + 1, Append(seed, line),
                                SizeOf(seed) + line_size, i - Len(seed),
                                Append(chunks, CodeChunk(a, start_line, i, current_chunk)))
             ELSE CoreChunkLoop(a, lines, i + 1, Append(current_chunk, line),
                                current_size + line_size, start_line, chunks)

\* CoreIndexer._chunk_text(text, file_path, language, chunk_size, overlap)
CoreChunkText(a) == CoreChunkLoop(a, SplitLines(a.text), 0, <<>>, 0, 0, <<>>)

\* The texts the chunkers are run on: every text of at most MaxTextLen characters.
MaxTextLen == 4
ChunkChars == {"a", " ", "\n"}
ChunkTexts == UNION { [1..n -> ChunkChars] : n \in 0..MaxTextLen }
ChunkSizes == {2, 4}
Overlaps == {0, 1, 100}
ChunkFile == <<"c.py">>

\* A text, in a file of the repository, and the settings of a CoreIndexer.
InitChunk ==
    /\ chunk_args \in [text : ChunkTexts, chunk_size : ChunkSizes, overlap : Overlaps,
                       file_path : {AbsPath(ChunkFile)}, language : {"python"}]
    /\ fs = [p \in {ChunkFile} |-> [text |-> chunk_args.text, mtime |-> 0, readable |-> TRUE]]
    /\ file_metadata = [i \in Indexers |-> <<>>]
    /\ IdxIdle
    /\ detected = None
    /\ chunk_out = None
    /\ CoreIdle
    /\ PipeIdle
    /\ FnIdle

\* CoreIndexer._chunk_text on the text.
CoreChunk ==
    /\ chunk_out = None
    /\ chunk_out' = <<[by |-> "_chunk_text", chunks |-> CoreChunkText(chunk_args)]>>
    /\ UNCHANGED <<fs, now, storeUp, meta, vectors, file_metadata, client, pc, todo, hist>>
    /\ UNCHANGED <<detected, chunk_args, coreVars, pipeVars, fnVars>>

\* PersistentRepoIndexer._index_file on the file (max_chunk_chars and overlap are
\* the indexer's).
FileChunk ==
    /\ chunk_out = None
    /\ chunk_out' = <<[by |-> "_index_file", chunks |-> IndexFile(ChunkFile)]>>
    /\ UNCHANGED <<fs, now, storeUp, meta, vectors, file_metadata, client, pc, todo, hist>>
    /\ UNCHANGED <<detected, chunk_args, coreVars, pipeVars, fnVars>>

NextChunk == CoreChunk \/ FileChunk

SpecChunk == InitChunk /\ [][NextChunk]_vars

\* What a chunk holds and the span it records: lines for a CodeChunk, characters
\* for a Chunk of the persistent indexer.
ByLines == chunk_out[1].by = "_chunk_text"
Items(c) == IF ByLines THEN SplitLines(c.content) ELSE c.text
SpanStart(c) == IF ByLines THEN c.start_line ELSE c.start
SpanEnd(c) == IF ByLines THEN c.end_line ELSE c.end

\* The chunks in order, each without what it shares with the chunk before it.
RECURSIVE Rebuilt(_, _)
Rebuilt(cs, prevEnd) ==
    IF cs = <<>> THEN <<>>
    ELSE LET c == Head(cs)
             shared == Max(0, prevEnd - SpanStart(c))
         IN  SubSeq(Items(c), shared + 1, Len(Items(c))) \o Rebuilt(Tail(cs), SpanEnd(c))

\* C14: the chunks a chunker returns for a text that is not blank, in order and
\* each without its overlap with its predecessor, concatenate to the line
\* sequence of the text.
C14_ChunksRebuildText ==
    (chunk_out # None /\ ~Blank(chunk_args.text)) =>
        LET rebuilt == Rebuilt(chunk_out[1].chunks, 0)
        IN  (IF ByLines THEN rebuilt ELSE SplitLines(rebuilt)) = SplitLines(chunk_args.text)

\* C15: when CoreIndexer._chunk_text, called with an overlap of at least one
\* character, closes a chunk of two or more lines and goes on, the next chunk
\* begins with at least one and not all of the closed chunk's lines, and the
\* characters of these lines, newlines not counted, are at most overlap.
C15_SeedWithinOverlap ==
    (chunk_out # None /\ ByLines /\ chunk_args.overlap >= 1) =>
        LET cs == chunk_out[1].chunks
            lines == SplitLines(chunk_args.text)
        IN  \A k \in 1..(Len(cs) - 1) :
              LET seeded == cs[k].end_line - cs[k + 1].start_line
                  closed == cs[k].end_line - cs[k].start_line
              IN  closed >= 2 =>
                    /\ seeded >= 1
                    /\ seeded < closed
                    /\ SizeOf(SubSeq(lines, cs[k + 1].start_line + 1, cs[k].end_line))
                         - seeded <= chunk_args.overlap

\* C16: a chunker returns no chunk for the empty text.
C16_EmptyTextNoChunks ==
    (chunk_out # None /\ chunk_args.text = <<>>) => chunk_out[1].chunks = <<>>

\* ------------------------------------------------------------ the CoreIndexer

\* The contents of the files of a CoreIndexer's repository: one line, three lines.
CoreTexts == { <<"a">>, <<"a", "\n", "a", "\n", "a">> }

\* extract_chunks(chunk_size, overlap) as build_index calls it, scaled down from
\* the defaults 1600 / 200.
CoreChunkSize == 4
CoreOverlap == 1

\* file_path.name
NameOf(p) == p[Len(p)]

\* _detect_language
DetectLanguage(extension) == IF extension = ".py" THEN <<"python">> ELSE <<>>

\* _should_ignore: applied to the absolute path rglob yields.
ShouldIgnoreUnder(root, p) ==
    \/ \E k \in 1..Len(root \o p) : (root \o p)[k] \in IGNORE_DIRS
    \/ Suffix(p) \notin CODE_EXTS
ShouldIgnore(p) == ShouldIgnoreUnder(RepoRoot, p)

\* _create_file_node
CreateFileNode(p) ==
    [path |-> AbsPath(p), name |-> NameOf(p), extension |-> Suffix(p),
     size |-> Len(fs[p].text), language |-> DetectLanguage(Suffix(p)),
     is_code |-> Suffix(p) \in CODE_EXTS]

\* build_file_tree: the nodes of the files rglob yields, those ignored left out.
RECURSIVE BuildFileTree(_)
BuildFileTree(order) ==
    IF order = <<>> THEN <<>>
    ELSE (IF Head(order) \in DOMAIN fs /\ ~ShouldIgnore(Head(order))
          THEN <<CreateFileNode(Head(order))>>
          ELSE <<>>) \o BuildFileTree(Tail(order))

\* The path of the tree a FileNode was made of.
PathOfNode(node) == CHOOSE p \in Files : AbsPath(p) = node.path

\* "Assign IDs": the chunks of one file numbered from chunk_id on.
AssignIds(file_chunks, chunk_id) ==
    [k \in 1..Len(file_chunks) |->
        [file_chunks[k] EXCEPT !.id = "chunk_" \o ToString(chunk_id + k - 1)]]

\* extract_chunks: the loop over file_tree, chunk_id being the number of chunks
\* numbered so far.
RECURSIVE ExtractChunks(_, _, _, _)
ExtractChunks(nodes, chunk_size, ov, chunk_id) ==
    IF nodes = <<>> THEN <<>>
    ELSE LET node == Head(nodes)
             p == PathOfNode(node)
             skip == ~node.is_code \/ p \notin DOMAIN fs \/ ~fs[p].readable
             file_chunks ==
                 IF skip THEN <<>>
                 ELSE CoreChunkText([text |-> fs[p].text, file_path |-> node.path,
                                     language |-> IF node.language = <<>> THEN "text"
                                                  ELSE node.language[1],
                                     chunk_size |-> chunk_size, overlap |-> ov])
         IN  AssignIds(file_chunks, chunk_id)
             \o ExtractChunks(Tail(nodes), chunk_size, ov, chunk_id + Len(file_chunks))

\* get_chunks_by_file
GetChunksByFile(file_path) ==
    SelectSeq(core_chunks, LAMBDA c : c.file_path = file_path)

\* CoreIndexer.get_stats
CoreStats ==
    [total_files |-> Len(file_tree),
     code_files |-> Len(SelectSeq(file_tree, LAMBDA f : f.is_code)),
     total_chunks |-> Len(core_chunks),
     languages |-> Cardinality({ file_tree[k].language : k \in 1..Len(file_tree) } \ {<<>>})]

\* The arguments of RepoCoderPipeline's constructor: which of the optional
\* parts are given.
Configs ==
    [use_llm_routing : BOOLEAN, routing_llm : BOOLEAN, embedder : BOOLEAN,
     llm_executor : BOOLEAN]

\* embedder.encode of the text compute_embeddings makes of a chunk: a function
\* of the file's name, the language and the content.
ComputeEmbedding(chunk, tree) ==
    LET nodes == SelectSeq(tree, LAMBDA f : f.path = chunk.file_path)
        filename == IF nodes = <<>> THEN "unknown" ELSE nodes[1].name
    IN  <<"embedding", filename, chunk.language, chunk.content>>

\* A repository of some of the files, and a pipeline, with or without an
\* embedder, whose CoreIndexer has indexed nothing.
InitCore ==
    /\ \E present \in SUBSET Files :
          fs \in [present -> [text : CoreTexts, mtime : {0}, readable : {TRUE}]]
    /\ file_metadata = [i \in Indexers |-> <<>>]
    /\ IdxIdle
    /\ detected = None
    /\ chunk_args = None
    /\ chunk_out = None
    /\ CoreIdle
    /\ config \in { c \in Configs : ~c.use_llm_routing /\ ~c.routing_llm /\ ~c.llm_executor }
    /\ chunk_embeddings = <<>>
    /\ QueryIdle
    /\ FnIdle

\* The environment writes or removes a file of the repository.
TreeWrite(p, t) ==
    /\ Tick
    /\ fs' = Put(fs, p, [text |-> t, mtime |-> now + 1, readable |-> TRUE])
    /\ UNCHANGED <<storeUp, meta, vectors, file_metadata, client, pc, todo, hist>>
    /\ UNCHANGED extVars

TreeDelete(p) ==
    /\ Tick
    /\ p \in DOMAIN fs
    /\ fs' = Del(fs, p)
    /\ UNCHANGED <<storeUp, meta, vectors, file_metadata, client, pc, todo, hist>>
    /\ UNCHANGED extVars

\* build_index: build_file_tree(), extract_chunks() and compute_embeddings(),
\* which without an embedder does nothing.
BuildIndex ==
    /\ step = "idle"
    /\ file_tree' = BuildFileTree(ScanOrder)
    /\ LET extracted == ExtractChunks(file_tree', CoreChunkSize, CoreOverlap, 0)
           embeddings == [k \in 1..Len(extracted) |-> ComputeEmbedding(extracted[k], file_tree')]
       IN  IF config.embedder
           THEN /\ chunk_embeddings' = embeddings
                /\ core_chunks' = [k \in 1..Len(extracted) |->
                                      [extracted[k] EXCEPT !.embedding = <<embeddings[k]>>]]
           ELSE /\ chunk_embeddings' = chunk_embeddings
                /\ core_chunks' = extracted
    /\ prev_chunks' = <<core_chunks>>
    /\ UNCHANGED <<fs, now, storeUp, meta, vectors, file_metadata, client, pc, todo, hist>>
    /\ UNCHANGED <<detected, chunk_args, chunk_out, config, queryVars, fnVars>>

NextCore ==
    \/ \E p \in Files, t \in CoreTexts : TreeWrite(p, t)
    \/ \E p \in Files : TreeDelete(p)
    \/ BuildIndex

SpecCore == InitCore /\ [][NextCore]_vars

\* C13: a chunk that an extraction gives the path, start and end of a chunk of
\* the extraction before it has that chunk's identifier, whatever files were
\* added, removed or changed in between.
C13_ChunkIdBySpan ==
    prev_chunks # None =>
        \A k \in 1..Len(core_chunks) : \A h \in 1..Len(prev_chunks[1]) :
            LET c == core_chunks[k]
                d == prev_chunks[1][h]
            IN  (c.file_path = d.file_path /\ c.start_line = d.start_line
                 /\ c.end_line = d.end_line)
                => c.id = d.id

\* ---------------------------------------------------------- the text of queries

\* A text is the list of its characters.
LowerLetters ==
    <<"a", "b", "c", "d", "e", "f", "g", "h", "i", "j", "k", "l", "m", "n", "o", "p", "q", "r", "s", "t", "u", "v", "w", "x", "y", "z">>
UpperLetters ==
    <<"A", "B", "C", "D", "E", "F", "G", "H", "I", "J", "K", "L", "M", "N", "O", "P", "Q", "R", "S", "T", "U", "V", "W", "X", "Y", "Z">>
DigitChars == {"0", "1", "2", "3", "4", "5", "6", "7", "8", "9"}
WhiteChars == {" ", "\n", "\t"}
QuoteChars == {"\"", "'"}

\* \w of the regular expressions
WordChars == Range(LowerLetters) \cup Range(UpperLetters) \cup DigitChars \cup {"_"}
\* [a-zA-Z0-9_\-/] of the third file pattern
PathChars == Range(LowerLetters) \cup Range(UpperLetters) \cup DigitChars \cup {"_", "-", "/"}

\* str.lower()
LowerChar(c) ==
    IF \E k \in 1..Len(UpperLetters) : UpperLetters[k] = c
    THEN LowerLetters[CHOOSE k \in 1..Len(UpperLetters) : UpperLetters[k] = c]
    ELSE c
Lower(s) == [k \in 1..Len(s) |-> LowerChar(s[k])]

\* str.strip()
RECURSIVE LStrip(_)
LStrip(s) == IF s # <<>> /\ s[1] \in WhiteChars THEN LStrip(Tail(s)) ELSE s
RECURSIVE RStrip(_)
RStrip(s) ==
    IF s # <<>> /\ s[Len(s)] \in WhiteChars THEN RStrip(SubSeq(s, 1, Len(s) - 1)) ELSE s
Strip(s) == RStrip(LStrip(s))

\* str.replace(c, "") for the characters of a set
Without(s, cs) == SelectSeq(s, LAMBDA c : c \notin cs)

\* The literal w stands in s from position k on.
At(s, w, k) == k >= 1 /\ k + Len(w) - 1 <= Len(s) /\ \A j \in 1..Len(w) : s[k + j - 1] = w[j]
\* w in s
Contains(s, w) == \E k \in 1..(Len(s) + 1) : At(s, w, k)

\* \b between the characters k-1 and k of s.
IsWordAt(s, k) == k \in 1..Len(s) /\ s[k] \in WordChars
Boundary(s, k) == IsWordAt(s, k - 1) # IsWordAt(s, k)

\* A regular expression of the shape  \b p1 .* p2 .* pn c? \b : the literals
\* p1..pn, the optional last character c (none: the empty list), and whether
\* it begins and ends with \b.
Pat(lb, parts, opt, rb) == [lb |-> lb, parts |-> parts, opt |-> opt, rb |-> rb]

\* The parts n.. of the pattern can be matched in s from position from on.
RECURSIVE MatchParts(_, _, _, _)
MatchParts(s, pattern, n, from) ==
    LET part == pattern.parts[n]
    IN  \E k \in from..(Len(s) + 1) :
            /\ At(s, part, k)
            /\ (n = 1 /\ pattern.lb) => Boundary(s, k)
            /\ IF n < Len(pattern.parts)
               THEN MatchParts(s, pattern, n + 1, k + Len(part))
               ELSE LET e == k + Len(part)
                    IN  \/ ~pattern.rb \/ Boundary(s, e)
                        \/ /\ pattern.opt # <<>>
                           /\ At(s, pattern.opt, e)
                           /\ ~pattern.rb \/ Boundary(s, e + Len(pattern.opt))

\* re.search(pattern, s)
Search(pattern, s) == MatchParts(s, pattern, 1, 1)
\* any(re.search(pattern, s) for pattern in patterns)
SearchAny(patterns, s) == \E k \in 1..Len(patterns) : Search(patterns[k], s)

\* chunks[:k] of Python
Take(s, k) ==
    IF k >= 0 THEN SubSeq(s, 1, Min(k, Len(s)))
    ELSE SubSeq(s, 1, Max(Len(s) + k, 0))

RECURSIVE SumOf(_)
SumOf(s) == IF s = <<>> THEN 0 ELSE Head(s) + SumOf(Tail(s))

RECURSIVE Concat(_)
Concat(ss) == IF ss = <<>> THEN <<>> ELSE Head(ss) \o Concat(Tail(ss))

\* The characters of the names of the repository's paths.
SegChars ==
    ("home" :> <<"h", "o", "m", "e">>) @@ ("repo" :> <<"r", "e", "p", "o">>) @@
    ("a" :> <<"a">>) @@ ("b.py" :> <<"b", ".", "p", "y">>) @@
    ("a_b.py" :> <<"a", "_", "b", ".", "p", "y">>) @@ ("c.py" :> <<"c", ".", "p", "y">>)

\* str(file_path) and file_path.name as texts
PathText(p) == Concat([k \in 1..Len(RepoRoot \o p) |-> <<"/">> \o SegChars[(RepoRoot \o p)[k]]])
NameText(p) == SegChars[NameOf(p)]

\* ------------------------------------------------------------ the QueryAnalyzer

\* _detect_files: the end of the longest run of characters of a class from i on
\* (i-1: none).
RunEnd(s, i, class) ==
    CHOOSE e \in (i - 1)..Len(s) :
        /\ \A j \in i..e : s[j] \in class
        /\ e = Len(s) \/ s[e + 1] \notin class

\* A match of  \b(class+\.\w{2,4})\b  beginning at i (file_patterns 1 and 3):
\* the group and its end, or nothing.
NameMatchAt(class, s, i) ==
    LET d == RunEnd(s, i, class) + 1
        e == RunEnd(s, d + 1, WordChars)
    IN  IF /\ Boundary(s, i) /\ d > i /\ d <= Len(s) /\ s[d] = "."
           /\ e - d >= 2 /\ e - d <= 4
        THEN <<[group |-> SubSeq(s, i, e), end |-> e]>>
        ELSE <<>>

\* A match of  ["']([^"']+\.\w{2,4})["']  beginning at i (file_patterns 2).
QuotedMatchAt(s, i) ==
    IF i \in 1..Len(s) /\ s[i] \in QuoteChars /\ \E q \in (i + 1)..Len(s) : s[q] \in QuoteChars
    THEN LET q == CHOOSE q \in (i + 1)..Len(s) :
                      s[q] \in QuoteChars /\ \A j \in (i + 1)..(q - 1) : s[j] \notin QuoteChars
             ok == \E n \in 2..4 :
                      /\ q - n - 1 >= i + 2
                      /\ s[q - n - 1] = "."
                      /\ \A j \in (q - n)..(q - 1) : s[j] \in WordChars
         IN  IF ok THEN <<[group |-> SubSeq(s, i + 1, q - 1), end |-> q]>> ELSE <<>>
    ELSE <<>>

\* file_patterns, by position in the list
FileMatchAt(n, s, i) ==
    IF n = 1 THEN NameMatchAt(WordChars, s, i)
    ELSE IF n = 2 THEN QuotedMatchAt(s, i)
    ELSE NameMatchAt(PathChars, s, i)

\* re.finditer(file_patterns[n], s): the groups of the matches, left to right,
\* none overlapping.
RECURSIVE FindIter(_, _, _)
FindIter(n, s, from) ==
    LET starts == { i \in from..Len(s) : FileMatchAt(n, s, i) # <<>> }
    IN  IF starts = {} THEN <<>>
        ELSE LET i == CHOOSE i \in starts : \A j \in starts : i <= j
                 m == FileMatchAt(n, s, i)[1]
             IN  <<m.group>> \o FindIter(n, s, m.end + 1)

FalsePositives ==
    { <<"e", ".", "g">>,
       <<"i", ".", "e">>,
       <<"e", "t", "c">> }

\* "Remove duplicates": the first reference to each filename, the confidences
\* being equal.
RECURSIVE UniqueFiles(_, _)
UniqueFiles(files, seen) ==
    IF files = <<>> THEN <<>>
    ELSE IF Lower(Head(files).filename) \in seen THEN UniqueFiles(Tail(files), seen)
    ELSE <<Head(files)>>
         \o UniqueFiles(Tail(files), seen \cup {Lower(Head(files).filename)})

\* _detect_files; a confidence is in tenths.
DetectFiles(query) ==
    LET query_lower == Lower(query)
        found == FindIter(1, query_lower, 1) \o FindIter(2, query_lower, 1)
                 \o FindIter(3, query_lower, 1)
        kept == SelectSeq(found, LAMBDA f :
                    f \notin FalsePositives /\ "." \in Range(f) /\ Len(f) > 3)
    IN  UniqueFiles([k \in 1..Len(kept) |-> [filename |-> kept[k], confidence |-> 8]], {})

\* analyze: the fields of the QueryAnalysis that routing and retrieval read.
AnalyzeQuery(query) ==
    [original_query |-> query,
     normalized_query |-> Strip(Lower(query)),
     file_references |-> DetectFiles(query)]

\* ---------------------------------------------------------------- the routers

metadata_patterns ==
    << Pat(TRUE, <<<<"h", "o", "w", " ", "m", "a", "n", "y">>, <<"f", "i", "l", "e">>>>, <<"s">>, TRUE),
       Pat(TRUE, <<<<"c", "o", "u", "n", "t">>, <<"f", "i", "l", "e">>>>, <<"s">>, TRUE),
       Pat(TRUE, <<<<"l", "i", "s", "t">>, <<"f", "i", "l", "e">>>>, <<"s">>, TRUE),
       Pat(TRUE, <<<<"w", "h", "a", "t">>, <<"f", "i", "l", "e">>>>, <<"s">>, TRUE),
       Pat(TRUE, <<<<"h", "o", "w", " ", "m", "a", "n", "y">>, <<"l", "i", "n", "e">>>>, <<"s">>, TRUE),
       Pat(TRUE, <<<<"c", "o", "u", "n", "t">>, <<"l", "i", "n", "e">>>>, <<"s">>, TRUE),
       Pat(TRUE, <<<<"p", "r", "o", "j", "e", "c", "t">>, <<"s", "i", "z", "e">>>>, <<>>, TRUE),
       Pat(TRUE, <<<<"r", "e", "p", "o", "s", "i", "t", "o", "r", "y">>, <<"s", "i", "z", "e">>>>, <<>>, TRUE),
       Pat(TRUE, <<<<"w", "h", "a", "t">>, <<"l", "a", "n", "g", "u", "a", "g", "e">>>>, <<"s">>, TRUE),
       Pat(TRUE, <<<<"h", "o", "w", " ", "m", "a", "n", "y">>, <<"l", "a", "n", "g", "u", "a", "g", "e">>>>, <<"s">>, TRUE),
       Pat(TRUE, <<<<"f", "i", "l", "e">>, <<"t", "y", "p", "e">>>>, <<"s">>, TRUE),
       Pat(TRUE, <<<<"p", "r", "o", "j", "e", "c", "t">>, <<"s", "t", "r", "u", "c", "t", "u", "r", "e">>>>, <<>>, TRUE),
       Pat(TRUE, <<<<"d", "i", "r", "e", "c", "t", "o", "r", "y">>, <<"s", "t", "r", "u", "c", "t", "u", "r", "e">>>>, <<>>, TRUE) >>

structure_patterns ==
    << Pat(TRUE, <<<<"p", "r", "o", "j", "e", "c", "t">>, <<"o", "r", "g", "a", "n", "i", "z", "a", "t", "i", "o", "n">>>>, <<>>, TRUE),
       Pat(TRUE, <<<<"f", "i", "l", "e">>, <<"o", "r", "g", "a", "n", "i", "z", "a", "t", "i", "o", "n">>>>, <<>>, TRUE),
       Pat(TRUE, <<<<"w", "h", "e", "r", "e">>, <<"i", "s">>, <<"l", "o", "c", "a", "t", "e", "d">>>>, <<>>, TRUE),
       Pat(TRUE, <<<<"f", "i", "n", "d">>, <<"f", "i", "l", "e">>>>, <<>>, TRUE),
       Pat(TRUE, <<<<"w", "h", "i", "c", "h">>, <<"d", "i", "r", "e", "c", "t", "o", "r", "y">>>>, <<>>, TRUE) >>

computation_patterns ==
    << Pat(TRUE, <<<<"h", "o", "w", " ", "m", "a", "n", "y">>>>, <<>>, TRUE),
       Pat(TRUE, <<<<"c", "o", "u", "n", "t">>>>, <<>>, TRUE),
       Pat(TRUE, <<<<"t", "o", "t", "a", "l">>>>, <<>>, TRUE),
       Pat(TRUE, <<<<"s", "u", "m">>>>, <<>>, TRUE),
       Pat(TRUE, <<<<"a", "v", "e", "r", "a", "g", "e">>>>, <<>>, TRUE) >>

IsMetadataQuery(query) == SearchAny(metadata_patterns, query)
IsStructureQuery(query) == SearchAny(structure_patterns, query)
IsComputationQuery(query) == SearchAny(computation_patterns, query)

\* A routing decision; the reasoning is kept as the name of the rule.
Decision(strategy, needs_code, needs_metadata, direct, reasoning) ==
    [strategy |-> strategy, needs_code |-> needs_code, needs_metadata |-> needs_metadata,
     can_compute_directly |-> direct, reasoning |-> reasoning]

\* QueryRouter.route
Route(qa) ==
    LET query_lower == qa.normalized_query
    IN  IF IsMetadataQuery(query_lower)
        THEN Decision("metadata", FALSE, TRUE, TRUE, "metadata pattern")
        ELSE IF IsStructureQuery(query_lower)
        THEN Decision("structure", FALSE, TRUE, FALSE, "structure pattern")
        ELSE IF IsComputationQuery(query_lower)
        THEN Decision("metadata", FALSE, TRUE, TRUE, "computation pattern")
        ELSE IF qa.file_references # <<>>
        THEN Decision("file_specific", TRUE, FALSE, FALSE, "file references")
        ELSE Decision("semantic", TRUE, FALSE, FALSE, "default")

\* The answers of the small language model to the routing prompt.
LLMOutputs ==
    { <<"m", "e", "t", "a", "d", "a", "t", "a">>,
      <<" ", "F", "i", "l", "e", "-", "S", "p", "e", "c", "i", "f", "i", "c", "\n">>,
      <<"s", "t", "r", "u", "c", "t", "u", "r", "e">>,
      <<"s", "e", "m", "a", "n", "t", "i", "c">>,
      <<"m", "e", "t", "a">>,
      <<"t", "h", "e", " ", "o", "r", "g", "a", "n", "i", "z", "a", "t", "i", "o", "n">>,
      <<"n", "o", " ", "i", "d", "e", "a">> }

\* _parse_simple_decision: the strategy word
StrategyWords ==
    << <<"metadata", <<"m", "e", "t", "a", "d", "a", "t", "a">>>>, <<"file_specific", <<"f", "i", "l", "e", "s", "p", "e", "c", "i", "f", "i", "c">>>>, <<"semantic", <<"s", "e", "m", "a", "n", "t", "i", "c">>>>, <<"structure", <<"s", "t", "r", "u", "c", "t", "u", "r", "e">>>> >>
ParseStrategy(output) ==
    LET output_clean == Lower(Strip(output))
        squeezed == Without(output_clean, {"_", "-", " "})
        hits == { k \in 1..Len(StrategyWords) : Contains(squeezed, StrategyWords[k][2]) }
    IN  IF hits # {} THEN StrategyWords[CHOOSE k \in hits : \A h \in hits : k <= h][1]
        ELSE IF Contains(output_clean, <<"m", "e", "t", "a", "d", "a", "t", "a">>) \/ Contains(output_clean, <<"m", "e", "t", "a">>)
        THEN "metadata"
        ELSE IF Contains(output_clean, <<"f", "i", "l", "e">>) \/ Contains(output_clean, <<"s", "p", "e", "c", "i", "f", "i", "c">>)
        THEN "file_specific"
        ELSE IF Contains(output_clean, <<"s", "t", "r", "u", "c", "t", "u", "r", "e">>) \/ Contains(output_clean, <<"o", "r", "g", "a", "n", "i", "z", "a", "t", "i", "o", "n">>)
        THEN "structure"
        ELSE "semantic"

\* _parse_simple_decision
ParseSimpleDecision(output) ==
    LET strategy == ParseStrategy(output)
    IN  IF strategy = "metadata" THEN Decision("metadata", FALSE, TRUE, TRUE, "llm")
        ELSE IF strategy = "file_specific"
        THEN Decision("file_specific", TRUE, FALSE, FALSE, "llm")
        ELSE IF strategy = "structure" THEN Decision("structure", FALSE, TRUE, FALSE, "llm")
        ELSE Decision("semantic", TRUE, FALSE, FALSE, "llm")

metadata_keywords ==
    << <<"h", "o", "w", " ", "m", "a", "n", "y">>,
       <<"c", "o", "u", "n", "t">>,
       <<"l", "i", "s", "t">>,
       <<"w", "h", "a", "t", " ", "l", "a", "n", "g", "u", "a", "g", "e", "s">>,
       <<"p", "r", "o", "j", "e", "c", "t", " ", "s", "i", "z", "e">> >>

\* _fallback_route
FallbackRoute(qa) ==
    IF \E k \in 1..Len(metadata_keywords) :
          Contains(qa.normalized_query, metadata_keywords[k])
    THEN Decision("metadata", FALSE, TRUE, TRUE, "fallback")
    ELSE IF qa.file_references # <<>>
    THEN Decision("file_specific", TRUE, FALSE, FALSE, "fallback")
    ELSE Decision("semantic", TRUE, FALSE, FALSE, "fallback")

\* ------------------------------------------------------ the MultiIntentHandler

conjunction_words ==
    << Pat(TRUE, <<<<"a", "n", "d">>>>, <<>>, TRUE),
       Pat(TRUE, <<<<"a", "l", "s", "o">>>>, <<>>, TRUE),
       Pat(TRUE, <<<<"t", "h", "e", "n">>>>, <<>>, TRUE),
       Pat(TRUE, <<<<"p", "l", "u", "s">>>>, <<>>, TRUE),
       Pat(TRUE, <<<<"a", "f", "t", "e", "r", " ", "t", "h", "a", "t">>>>, <<>>, TRUE),
       Pat(TRUE, <<<<"a", "d", "d", "i", "t", "i", "o", "n", "a", "l", "l", "y">>>>, <<>>, TRUE) >>

\* intent_indicators, in the order of the dictionary
IntentTypes == <<"metadata", "code", "structure">>
intent_indicators ==
    ("metadata" :> << Pat(FALSE, <<<<"h", "o", "w", " ", "m", "a", "n", "y">>>>, <<>>, FALSE),
                      Pat(FALSE, <<<<"c", "o", "u", "n", "t">>>>, <<>>, FALSE),
                      Pat(FALSE, <<<<"l", "i", "s", "t">>>>, <<>>, FALSE),
                      Pat(FALSE, <<<<"w", "h", "a", "t">>, <<"f", "i", "l", "e", "s">>>>, <<>>, FALSE),
                      Pat(FALSE, <<<<"w", "h", "a", "t">>, <<"l", "a", "n", "g", "u", "a", "g", "e", "s">>>>, <<>>, FALSE),
                      Pat(FALSE, <<<<"p", "r", "o", "j", "e", "c", "t">>, <<"s", "i", "z", "e">>>>, <<>>, FALSE) >>) @@
    ("code" :> << Pat(FALSE, <<<<"h", "o", "w">>, <<"w", "o", "r", "k">>>>, <<>>, FALSE),
                  Pat(FALSE, <<<<"e", "x", "p", "l", "a", "i", "n">>>>, <<>>, FALSE),
                  Pat(FALSE, <<<<"a", "n", "a", "l", "y", "z", "e">>>>, <<>>, FALSE),
                  Pat(FALSE, <<<<"s", "h", "o", "w">>, <<"c", "o", "d", "e">>>>, <<>>, FALSE),
                  Pat(FALSE, <<<<"i", "m", "p", "l", "e", "m", "e", "n", "t">>>>, <<>>, FALSE),
                  Pat(FALSE, <<<<"f", "i", "x">>>>, <<>>, FALSE),
                  Pat(FALSE, <<<<"d", "e", "b", "u", "g">>>>, <<>>, FALSE),
                  Pat(FALSE, <<<<"r", "e", "v", "i", "e", "w">>>>, <<>>, FALSE) >>) @@
    ("structure" :> << Pat(FALSE, <<<<"s", "t", "r", "u", "c", "t", "u", "r", "e">>>>, <<>>, FALSE),
                       Pat(FALSE, <<<<"o", "r", "g", "a", "n", "i", "z", "a", "t", "i", "o", "n">>>>, <<>>, FALSE),
                       Pat(FALSE, <<<<"w", "h", "e", "r", "e">>, <<"l", "o", "c", "a", "t", "e", "d">>>>, <<>>, FALSE),
                       Pat(FALSE, <<<<"f", "i", "n", "d">>, <<"f", "i", "l", "e">>>>, <<>>, FALSE),
                       Pat(FALSE, <<<<"d", "i", "r", "e", "c", "t", "o", "r", "y">>>>, <<>>, FALSE) >>)

\* detect_multi_intent
DetectMultiIntent(qa) ==
    LET query == qa.normalized_query
        has_conjunction == SearchAny(conjunction_words, query)
        detected_intents ==
            SelectSeq(IntentTypes, LAMBDA t : SearchAny(intent_indicators[t], query))
    IN  IF ~has_conjunction THEN [is_multi |-> FALSE, intents |-> <<>>]
        ELSE [is_multi |-> Len(detected_intents) > 1, intents |-> detected_intents]

\* create_routing_decision
CreateRoutingDecision(intents, qa) ==
    Decision("multi_intent",
             "code" \in Range(intents) \/ qa.file_references # <<>>,
             "metadata" \in Range(intents) \/ "structure" \in Range(intents),
             FALSE, "multi-intent")

\* --------------------------------------------------------- the ContextRetriever

\* get_file_by_name
GetFileByName(filename) ==
    LET filename_lower == Lower(filename)
        hits == { k \in 1..Len(file_tree) :
                    \/ Lower(NameText(PathOfNode(file_tree[k]))) = filename_lower
                    \/ Contains(Lower(PathText(PathOfNode(file_tree[k]))), filename_lower) }
    IN  IF hits = {} THEN None
        ELSE <<file_tree[CHOOSE k \in hits : \A h \in hits : k <= h]>>

\* _retrieve_by_files
RetrieveByFiles(file_refs, k) ==
    Take(Concat([i \in 1..Len(file_refs) |->
                    LET file_node == GetFileByName(file_refs[i].filename)
                    IN  IF file_node = None THEN <<>>
                        ELSE GetChunksByFile(file_node[1].path)]), k)

\* The orders the similarities of a query can put n embeddings in, the most
\* similar first.
Orders(n) == { f \in [1..n -> 1..n] : \A i, j \in 1..n : f[i] = f[j] => i = j }

\* _retrieve_semantic, the embeddings ordered by similarity to the query
RetrieveSemantic(k, order) ==
    IF ~config.embedder \/ chunk_embeddings = <<>> THEN Take(core_chunks, k)
    ELSE LET top_indices == Take(order, k)
         IN  [i \in 1..Len(top_indices) |-> core_chunks[top_indices[i]]]

\* ContextRetriever.retrieve; the nodes of the files involved are kept as a set.
RetrieveContext(qa, k, order) ==
    LET by_files == qa.file_references # <<>>
        found == IF by_files THEN RetrieveByFiles(qa.file_references, k)
                 ELSE IF chunk_embeddings # <<>> THEN RetrieveSemantic(k, order)
                 ELSE Take(core_chunks, k)
        strategy == IF by_files THEN "file_specific"
                    ELSE IF chunk_embeddings # <<>> THEN "semantic"
                    ELSE "fallback"
        file_paths == { found[i].file_path : i \in 1..Len(found) }
        nodes == { file_tree[i] : i \in { j \in 1..Len(file_tree) : file_tree[j].path \in file_paths } }
    IN  [chunks |-> found, file_tree |-> nodes, total_chunks |-> Len(found),
         strategy_used |-> strategy, metadata |-> [files_involved |-> Cardinality(nodes)]]

\* ------------------------------------------------------------- direct answers

Languages == { file_tree[k].language[1] : k \in { j \in 1..Len(file_tree) : file_tree[j].language # <<>> } }
TotalSize == SumOf([k \in 1..Len(file_tree) |-> file_tree[k].size])
FirstNames(n) == [k \in 1..Min(n, Len(file_tree)) |-> file_tree[k].name]

\* QueryRouter.answer_metadata_query: the sentence, as its kind and the numbers in it
AnswerMetadataQuery(qa) ==
    LET stats == CoreStats
        query_lower == qa.normalized_query
        answer ==
            IF Contains(query_lower, <<"h", "o", "w", " ", "m", "a", "n", "y", " ", "f", "i", "l", "e", "s">>) \/ Contains(query_lower, <<"c", "o", "u", "n", "t", " ", "f", "i", "l", "e", "s">>)
            THEN <<"files", stats.total_files, stats.code_files>>
            ELSE IF Contains(query_lower, <<"h", "o", "w", " ", "m", "a", "n", "y", " ", "l", "i", "n", "e", "s">>) \/ Contains(query_lower, <<"c", "o", "u", "n", "t", " ", "l", "i", "n", "e", "s">>)
            THEN <<"lines", SumOf([k \in 1..Len(core_chunks) |-> core_chunks[k].end_line]),
                   stats.code_files>>
            ELSE IF Contains(query_lower, <<"w", "h", "a", "t", " ", "l", "a", "n", "g", "u", "a", "g", "e", "s">>) \/ Contains(query_lower, <<"h", "o", "w", " ", "m", "a", "n", "y", " ", "l", "a", "n", "g", "u", "a", "g", "e", "s">>)
            THEN <<"languages", stats.languages, Languages>>
            ELSE IF Contains(query_lower, <<"p", "r", "o", "j", "e", "c", "t", " ", "s", "i", "z", "e">>) \/ Contains(query_lower, <<"r", "e", "p", "o", "s", "i", "t", "o", "r", "y", " ", "s", "i", "z", "e">>)
            THEN <<"size", TotalSize, stats.total_files>>
            ELSE IF Contains(query_lower, <<"l", "i", "s", "t", " ", "f", "i", "l", "e", "s">>)
            THEN <<"list", FirstNames(20), Max(Len(file_tree) - 20, 0)>>
            ELSE <<"statistics", stats.total_files, stats.code_files, stats.languages,
                   stats.total_chunks>>
    IN  [analysis |-> answer, plan |-> "Direct computation from file tree metadata",
         changes |-> <<>>, metadata |-> [direct_answer |-> TRUE, stats |-> stats]]

\* LLMQueryRouter._simple_metadata_answer
SimpleMetadataAnswer(query) ==
    LET stats == CoreStats
        answer ==
            IF Contains(query, <<"h", "o", "w", " ", "m", "a", "n", "y", " ", "f", "i", "l", "e", "s">>) \/ Contains(query, <<"c", "o", "u", "n", "t", " ", "f", "i", "l", "e", "s">>)
            THEN <<"files", stats.total_files, stats.code_files>>
            ELSE IF Contains(query, <<"w", "h", "a", "t", " ", "l", "a", "n", "g", "u", "a", "g", "e", "s">>)
            THEN <<"languages", stats.languages, Languages>>
            ELSE IF Contains(query, <<"p", "r", "o", "j", "e", "c", "t", " ", "s", "i", "z", "e">>)
            THEN <<"size", TotalSize, stats.total_files, stats.total_chunks>>
            ELSE IF Contains(query, <<"l", "i", "s", "t", " ", "f", "i", "l", "e", "s">>)
            THEN <<"list", FirstNames(20), Max(Len(file_tree) - 20, 0)>>
            ELSE <<"statistics", stats.total_files, stats.code_files, stats.total_chunks,
                   stats.languages>>
    IN  [analysis |-> answer, plan |-> "Direct computation from file tree",
         changes |-> <<>>, metadata |-> [stats |-> stats, direct_computation |-> TRUE]]

\* LLMQueryRouter._llm_metadata_answer when the model answers: the answer is the
\* model's text.
LLMMetadataAnswer ==
    [analysis |-> <<"text of small_llm">>, plan |-> "Direct answer from repository metadata",
     changes |-> <<>>, metadata |-> [stats |-> CoreStats, llm_generated |-> TRUE]]

\* ------------------------------------------------------- the RepoCoderPipeline

\* "Choose router based on configuration"
UsesLLMRouter == config.use_llm_routing /\ config.routing_llm

\* A call of small_llm.chat or llm_executor.chat that raises.
Raised == <<"exception">>

\* The queries: one or two of the phrases, and three whole sentences.
Phrases ==
    { <<"h", "o", "w", " ", "m", "a", "n", "y", " ", "f", "i", "l", "e", "s">>,
      <<"c", "o", "u", "n", "t">>,
      <<"w", "h", "e", "r", "e", " ", "i", "s", " ", "c", ".", "p", "y", " ", "l", "o", "c", "a", "t", "e", "d">>,
      <<"e", "x", "p", "l", "a", "i", "n">>,
      <<"a", "n", "d">>,
      <<"t", "h", "e", " ", "d", "i", "r", "e", "c", "t", "o", "r", "y">>,
      <<"c", ".", "p", "y">>,
      <<"b", ".", "p", "y">>,
      <<"x", ".", "p", "y">> }
ExampleQueries ==
    { <<"H", "o", "w", " ", "m", "a", "n", "y", " ", "f", "i", "l", "e", "s", " ", "a", "r", "e", " ", "i", "n", " ", "t", "h", "i", "s", " ", "p", "r", "o", "j", "e", "c", "t", " ", "a", "n", "d", " ", "h", "o", "w", " ", "d", "o", " ", "t", "h", "e", "y", " ", "c", "o", "n", "n", "e", "c", "t", "?">>,
      <<"e", "x", "p", "l", "a", "i", "n", " ", "t", "h", "e", " ", "d", "i", "r", "e", "c", "t", "o", "r", "y", " ", "a", "n", "d", " ", "f", "i", "x", " ", "i", "t">>,
      <<"l", "i", "s", "t", " ", "f", "i", "l", "e", "s", " ", "a", "n", "d", " ", "e", "x", "p", "l", "a", "i", "n", " ", "c", ".", "p", "y">> }
Queries ==
    Phrases \cup { a \o <<" ">> \o b : a \in Phrases, b \in Phrases } \cup ExampleQueries
TopKs == {2, 20}

\* The content of every file of the repository the pipeline is made for.
QueryTexts == { <<"a">> }

Call(target, purpose) == [target |-> target, purpose |-> purpose]

IndexNow == [file_tree |-> file_tree, chunks |-> core_chunks, embeddings |-> chunk_embeddings]

\* The pipeline as __init__ leaves it, over a repository of some of the files;
\* a routing model is given only together with use_llm_routing.
InitQuery ==
    /\ \E present \in SUBSET Files :
          fs \in [present -> [text : QueryTexts, mtime : {0}, readable : {TRUE}]]
    /\ file_metadata = [i \in Indexers |-> <<>>]
    /\ IdxIdle
    /\ detected = None
    /\ chunk_args = None
    /\ chunk_out = None
    /\ CoreIdle
    /\ config \in { c \in Configs : c.routing_llm => c.use_llm_routing }
    /\ chunk_embeddings = <<>>
    /\ QueryIdle
    /\ FnIdle

\* query(), step 1: query_analyzer.analyze
Analyze(query_text, k) ==
    /\ step = "idle"
    /\ step' = "analyzed"
    /\ request' = <<[query_text |-> query_text, top_k |-> k]>>
    /\ query_analysis' = <<AnalyzeQuery(query_text)>>
    /\ routing_decision' = None
    /\ context' = None
    /\ result' = None
    /\ calls' = <<>>
    /\ index_at_query' = <<IndexNow>>
    /\ UNCHANGED <<idxVars, detected, chunk_args, chunk_out, coreVars, config, chunk_embeddings,
                   fnVars>>

\* query(), step 1.5 with the QueryRouter
RoutePattern ==
    /\ step = "analyzed"
    /\ ~UsesLLMRouter
    /\ step' = "routed"
    /\ routing_decision' = <<Route(query_analysis[1])>>
    /\ UNCHANGED <<request, query_analysis, context, result, calls, index_at_query>>
    /\ UNCHANGED <<idxVars, detected, chunk_args, chunk_out, coreVars, config, chunk_embeddings,
                   fnVars>>

\* query(), step 1.5 with the LLMQueryRouter: small_llm.chat answers output or raises
RouteLLM(output) ==
    /\ step = "analyzed"
    /\ UsesLLMRouter
    /\ step' = "routed"
    /\ calls' = Append(calls, Call("small_llm.chat", "route"))
    /\ routing_decision' = IF output = Raised THEN <<FallbackRoute(query_analysis[1])>>
                           ELSE <<ParseSimpleDecision(output)>>
    /\ UNCHANGED <<request, query_analysis, context, result, index_at_query>>
    /\ UNCHANGED <<idxVars, detected, chunk_args, chunk_out, coreVars, config, chunk_embeddings,
                   fnVars>>

\* The result query() returns for a direct answer.
DirectResult(direct_answer) ==
    [model |-> "DirectComputation", retrieved |-> 0, result |-> direct_answer,
     retrieval |-> [strategy |-> "metadata_direct", files_involved |-> 0, total_chunks |-> 0],
     routing |-> routing_decision[1]]

\* query(), "If we can answer directly": answer_metadata_query of the router in
\* use; with the LLMQueryRouter small_llm.chat is called and answers or raises.
AnswerDirect(outcome) ==
    /\ step = "routed"
    /\ routing_decision[1].can_compute_directly
    /\ step' = "done"
    /\ IF UsesLLMRouter
       THEN /\ calls' = Append(calls, Call("small_llm.chat", "answer"))
            /\ result' = IF outcome = Raised
                         THEN <<DirectResult(SimpleMetadataAnswer(query_analysis[1].normalized_query))>>
                         ELSE <<DirectResult(LLMMetadataAnswer)>>
       ELSE /\ outcome # Raised
            /\ calls' = calls
            /\ result' = <<DirectResult(AnswerMetadataQuery(query_analysis[1]))>>
    /\ UNCHANGED <<request, query_analysis, routing_decision, context, index_at_query>>
    /\ UNCHANGED <<idxVars, detected, chunk_args, chunk_out, coreVars, config, chunk_embeddings,
                   fnVars>>

\* query(), step 2: context_retriever.retrieve
QueryRetrieve(order) ==
    /\ step = "routed"
    /\ ~routing_decision[1].can_compute_directly
    /\ step' = "retrieved"
    /\ calls' = Append(calls, Call("context_retriever.retrieve", "retrieve"))
    /\ context' = <<RetrieveContext(query_analysis[1], request[1].top_k, order)>>
    /\ UNCHANGED <<request, query_analysis, routing_decision, result, index_at_query>>
    /\ UNCHANGED <<idxVars, detected, chunk_args, chunk_out, coreVars, config, chunk_embeddings,
                   fnVars>>

\* query(), steps 3 and 4: select_model and response_generator.generate; with an
\* llm_executor its chat is called and answers or raises, and an exception leaves
\* query().
Generate(outcome) ==
    /\ step = "retrieved"
    /\ step' = "done"
    /\ IF config.llm_executor
       THEN calls' = Append(calls, Call("llm_executor.chat", "generate"))
       ELSE outcome # Raised /\ calls' = calls
    /\ result' =
         IF outcome = Raised THEN <<[exception |-> "llm_executor.chat"]>>
         ELSE <<[model |-> "selected model", retrieved |-> context[1].total_chunks,
                 result |-> IF config.llm_executor THEN <<"text of llm_executor">>
                            ELSE <<"fallback response", context[1].total_chunks,
                                   context[1].strategy_used>>,
                 retrieval |-> [strategy |-> context[1].strategy_used,
                                files_involved |-> Cardinality(context[1].file_tree),
                                total_chunks |-> context[1].total_chunks],
                 routing |-> routing_decision[1]]>>
    /\ UNCHANGED <<request, query_analysis, routing_decision, context, index_at_query>>
    /\ UNCHANGED <<idxVars, detected, chunk_args, chunk_out, coreVars, config, chunk_embeddings,
                   fnVars>>

\* query() has returned, or raised, and the caller has its result.
Return ==
    /\ step = "done"
    /\ step' = "idle"
    /\ request' = None
    /\ query_analysis' = None
    /\ routing_decision' = None
    /\ context' = None
    /\ result' = None
    /\ calls' = <<>>
    /\ index_at_query' = None
    /\ UNCHANGED <<idxVars, detected, chunk_args, chunk_out, coreVars, config, chunk_embeddings,
                   fnVars>>

\* build_index() is called once, queries come before and after it.
NextQuery ==
    \/ prev_chunks = None /\ BuildIndex
    \/ Return
    \/ \E query_text \in Queries, k \in TopKs : Analyze(query_text, k)
    \/ RoutePattern
    \/ \E output \in LLMOutputs \cup {Raised} : RouteLLM(output)
    \/ \E outcome \in {<<"answer">>, Raised} : AnswerDirect(outcome)
    \/ \E order \in Orders(Len(chunk_embeddings)) : QueryRetrieve(order)
    \/ \E outcome \in {<<"answer">>, Raised} : Generate(outcome)

SpecQuery == InitQuery /\ [][NextQuery]_vars

\* ------------------------------------------------------------ routing, claims

Routed == routing_decision # None
ByPatterns == Routed /\ ~UsesLLMRouter

\* The strategy the rules give in the order: metadata pattern, structure
\* pattern, computation pattern, file references, multi-intent, semantic.
FirstMatch(qa) ==
    IF IsMetadataQuery(qa.normalized_query) THEN "metadata"
    ELSE IF IsStructureQuery(qa.normalized_query) THEN "structure"
    ELSE IF IsComputationQuery(qa.normalized_query) THEN "metadata"
    ELSE IF qa.file_references # <<>> THEN "file_specific"
    ELSE IF DetectMultiIntent(qa).is_multi THEN "multi_intent"
    ELSE "semantic"

\* C17: the decision of route() is that of the first rule that matches, in the
\* order metadata pattern, structure pattern, computation pattern, file
\* references, conjunction with two intent categories (multi_intent, never
\* directly computable), semantic; only metadata decisions are directly computable.
C17_RouteFirstMatch ==
    ByPatterns =>
        /\ routing_decision[1].strategy = FirstMatch(query_analysis[1])
        /\ routing_decision[1].can_compute_directly
              <=> routing_decision[1].strategy = "metadata"

\* A conjunction word together with a metadata pattern and a code indicator.
MetadataAndCode(qa) ==
    /\ SearchAny(conjunction_words, qa.normalized_query)
    /\ IsMetadataQuery(qa.normalized_query)
    /\ SearchAny(intent_indicators["code"], qa.normalized_query)

\* C18: a query with a conjunction word that matches a metadata pattern and a
\* code-intent pattern, such as "How many files are in this project and how do
\* they connect?", is routed to multi_intent.
C18_ConjunctionRoutesMultiIntent ==
    (Routed /\ (MetadataAndCode(query_analysis[1])
                \/ query_analysis[1].original_query = <<"H", "o", "w", " ", "m", "a", "n", "y", " ", "f", "i", "l", "e", "s", " ", "a", "r", "e", " ", "i", "n", " ", "t", "h", "i", "s", " ", "p", "r", "o", "j", "e", "c", "t", " ", "a", "n", "d", " ", "h", "o", "w", " ", "d", "o", " ", "t", "h", "e", "y", " ", "c", "o", "n", "n", "e", "c", "t", "?">>))
        => routing_decision[1].strategy = "multi_intent"

\* C19: a query whose decision is directly computable is answered without a
\* retrieval call, without a call of a language model after the decision, and
\* with the index as it was when the query came in.
C19_DirectAnswerFromAggregates ==
    (step = "done" /\ routing_decision[1].can_compute_directly) =>
        /\ \A k \in 1..Len(calls) :
              /\ calls[k].target # "context_retriever.retrieve"
              /\ calls[k].purpose = "route"
        /\ index_at_query = <<IndexNow>>

\* C20: a context made, over an index that holds chunks, for a query with file
\* references of which no chunk was found does not record file_specific as its
\* strategy.
C20_StrategyThatRan ==
    (context # None /\ core_chunks # <<>>
     /\ query_analysis[1].file_references # <<>>
     /\ context[1].chunks = <<>>)
        => context[1].strategy_used # "file_specific"

\* ------------------------------------------------------------- the RepoIndexer

\* The chunks a RepoIndexer holds at most.
MaxRankChunks == 3

\* Raw cosine similarities of a query to a chunk, in tenths.
SimValues == {-2, -1, 1, 2, 6}

\* The queries given to the retrieval functions of the RepoIndexer.
RankQueries ==
    { <<"b", ".", "p", "y">>,
      <<"c", ".", "p", "y">>,
      <<"a", "_", "b", ".", "p", "y">>,
      <<"x", ".", "p", "y">>,
      <<"B", ".", "p", "y">> }

\* The top_k a caller gives to the retrieval functions of the RepoIndexer; 12 is
\* the default.
RankTopKs == {-1, 2, 12}

\* The chunks build() leaves of files that give counts[p] chunks each, in the
\* order rglob yields the files.
RECURSIVE ChunksOfCounts(_, _)
ChunksOfCounts(counts, order) ==
    IF order = <<>> THEN <<>>
    ELSE [k \in 1..counts[Head(order)] |-> [path |-> Head(order), start |-> k - 1, end |-> k]]
         \o ChunksOfCounts(counts, Tail(order))

\* similarities.sort(reverse=True) of the pairs (similarity, i), and the indices
\* of the pairs in that order.
PairAbove(scores, i, j) == scores[i] > scores[j] \/ (scores[i] = scores[j] /\ i > j)
SortedIndices(scores) ==
    [r \in 1..Len(scores) |->
        CHOOSE i \in 1..Len(scores) :
            Cardinality({ j \in 1..Len(scores) : PairAbove(scores, j, i) }) = r - 1]

\* What a retrieval function of the RepoIndexer gives: a list of chunks, or the
\* RuntimeError it raises.
Returned(found) == [raised |-> FALSE, chunks |-> found]
IndexIsEmpty == [raised |-> TRUE, chunks |-> <<>>]

\* RepoIndexer.retrieve, sims[i] the similarity of the query to embedding i
RIRetrieve(a) ==
    IF a.sims = <<>> THEN IndexIsEmpty
    ELSE LET top_indices == Take(SortedIndices(a.sims), a.top_k)
         IN  Returned([r \in 1..Len(top_indices) |-> a.chunks[top_indices[r]]])

\* retrieve_with_filename_boost: the factor a chunk's similarity is multiplied by
BoostFactor(path, query) ==
    LET query_lower == Lower(query)
        filename == Lower(NameText(path))
        chunk_path_lower == Lower(PathText(path))
    IN  IF filename = query_lower THEN 5
        ELSE IF Contains(filename, query_lower) THEN 3
        ELSE IF Contains(chunk_path_lower, query_lower) THEN 2
        ELSE 1

\* retrieve_with_filename_boost
RetrieveWithFilenameBoost(a) ==
    IF a.sims = <<>> THEN IndexIsEmpty
    ELSE LET similarities == [i \in 1..Len(a.sims) |->
                                 a.sims[i] * BoostFactor(a.chunks[i].path, a.query)]
             top_indices == Take(SortedIndices(similarities), a.top_k)
         IN  Returned([r \in 1..Len(top_indices) |-> a.chunks[top_indices[r]]])

\* retrieve_by_file
RetrieveByFile(a) ==
    IF a.chunks = <<>> THEN IndexIsEmpty
    ELSE LET filename_lower == Lower(a.query)
             file_chunks ==
                 SelectSeq(a.chunks, LAMBDA c :
                     \/ Lower(NameText(c.path)) = filename_lower
                     \/ Contains(Lower(PathText(c.path)), filename_lower))
         IN  IF file_chunks # <<>> THEN Returned(Take(file_chunks, a.top_k))
             ELSE RetrieveWithFilenameBoost(a)

\* A RepoIndexer after build(), which leaves one embedding per chunk, or before
\* it (no chunk); a query, and the similarities of the query to the embeddings.
InitRank ==
    /\ \E counts \in [Files -> 0..2] :
          LET held == ChunksOfCounts(counts, ScanOrder)
          IN  /\ Len(held) <= MaxRankChunks
              /\ \E sims \in [1..Len(held) -> SimValues], query \in RankQueries,
                    top_k \in RankTopKs :
                    call_args = <<[chunks |-> held, sims |-> sims, query |-> query,
                                   top_k |-> top_k]>>
    /\ call_out = None
    /\ fs = Empty
    /\ file_metadata = [i \in Indexers |-> <<>>]
    /\ IdxIdle
    /\ detected = None
    /\ chunk_args = None
    /\ chunk_out = None
    /\ CoreIdle
    /\ PipeIdle

RankUnchanged ==
    UNCHANGED <<idxVars, detected, chunk_args, chunk_out, coreVars, pipeVars, call_args>>

RetrieveCall ==
    /\ call_out = None
    /\ call_out' = <<[fn |-> "retrieve", out |-> RIRetrieve(call_args[1])]>>
    /\ RankUnchanged

RetrieveByFileCall ==
    /\ call_out = None
    /\ call_out' = <<[fn |-> "retrieve_by_file", out |-> RetrieveByFile(call_args[1])]>>
    /\ RankUnchanged

BoostCall ==
    /\ call_out = None
    /\ call_out' = <<[fn |-> "retrieve_with_filename_boost",
                      out |-> RetrieveWithFilenameBoost(call_args[1])]>>
    /\ RankUnchanged

NextRank == RetrieveCall \/ RetrieveByFileCall \/ BoostCall

SpecRank == InitRank /\ [][NextRank]_vars

\* Chunk i of the index is in the list a call returned, and its place there.
IsReturned(i) ==
    \E r \in 1..Len(call_out[1].out.chunks) :
        call_out[1].out.chunks[r] = call_args[1].chunks[i]
PlaceOf(i) ==
    CHOOSE r \in 1..Len(call_out[1].out.chunks) :
        call_out[1].out.chunks[r] = call_args[1].chunks[i]

\* C21: when the query is the name of a file, retrieve_with_filename_boost puts
\* every chunk of that file before every chunk of another file, the raw
\* similarities of the two being positive and differing by a factor below 5.
C21_ExactFileRanksFirst ==
    (call_out # None /\ call_out[1].fn = "retrieve_with_filename_boost"
     /\ ~call_out[1].out.raised) =>
        LET a == call_args[1]
        IN  \A i, j \in 1..Len(a.chunks) :
                (/\ NameText(a.chunks[i].path) = a.query
                 /\ a.chunks[j].path # a.chunks[i].path
                 /\ a.sims[i] > 0 /\ a.sims[j] > 0
                 /\ a.sims[j] < 5 * a.sims[i] /\ a.sims[i] < 5 * a.sims[j])
                => (IsReturned(j) => IsReturned(i) /\ PlaceOf(i) < PlaceOf(j))

\* C22: a retrieval function of the RepoIndexer called on an index that holds no
\* chunk returns an empty list and raises nothing.
C22_EmptyIndexEmptyResult ==
    (call_out # None /\ call_args[1].chunks = <<>>) =>
        /\ ~call_out[1].out.raised
        /\ call_out[1].out.chunks = <<>>

\* C23: a retrieval function of the RepoIndexer called with a negative top_k
\* raises an error and returns no chunk.
C23_NegativeTopKRejected ==
    (call_out # None /\ call_args[1].top_k < 0) =>
        /\ call_out[1].out.raised
        /\ call_out[1].out.chunks = <<>>

\* The tier a filename is matched to a file of the index in: 1 an equal name,
\* 2 a name equal but for case, 3 a name that contains it, 0 none.
MatchTier(filename) ==
    LET names == { NameText(PathOfNode(file_tree[k])) : k \in 1..Len(file_tree) }
    IN  IF filename \in names THEN 1
        ELSE IF \E n \in names : Lower(n) = Lower(filename) THEN 2
        ELSE IF \E n \in names : Contains(Lower(n), Lower(filename)) THEN 3
        ELSE 0

\* C24: every file reference of an analysed query names a candidate that matches
\* a file of the index by name, by name but for case, or as a part of the name,
\* and a reference matched in an earlier of these tiers has a higher confidence
\* than one matched in a later tier.
C24_CandidatesResolvedByTier ==
    query_analysis # None =>
        LET refs == query_analysis[1].file_references
        IN  /\ \A i \in 1..Len(refs) : MatchTier(refs[i].filename) # 0
            /\ \A i, j \in 1..Len(refs) :
                  MatchTier(refs[i].filename) < MatchTier(refs[j].filename)
                  => refs[i].confidence > refs[j].confidence

\* C25: a file_specific context for a query whose one file reference is the name
\* of a file of the index holds the chunks of that file.
C25_ExactNameGivesItsChunks ==
    (context # None /\ context[1].strategy_used = "file_specific"
     /\ Len(query_analysis[1].file_references) = 1) =>
        \A k \in 1..Len(file_tree) :
            NameText(PathOfNode(file_tree[k])) = query_analysis[1].file_references[1].filename
            => context[1].chunks = Take(GetChunksByFile(file_tree[k].path), request[1].top_k)

\* ------------------------------------ the steps of build_index called one by one

\* CoreIndexer.build_file_tree
CallBuildFileTree ==
    /\ file_tree' = BuildFileTree(ScanOrder)
    /\ UNCHANGED <<idxVars, detected, chunk_args, chunk_out, core_chunks, prev_chunks,
                   pipeVars, fnVars>>

\* CoreIndexer.extract_chunks, with the arguments build_index gives it
CallExtractChunks ==
    /\ core_chunks' = ExtractChunks(file_tree, CoreChunkSize, CoreOverlap, 0)
    /\ UNCHANGED <<idxVars, detected, chunk_args, chunk_out, file_tree, prev_chunks,
                   pipeVars, fnVars>>

\* ContextRetriever.compute_embeddings: nothing without an embedder; with one,
\* embedder.encode returns the embeddings of the chunks or raises.
CallComputeEmbeddings(encoded) ==
    /\ IF config.embedder /\ encoded
       THEN LET embeddings == [k \in 1..Len(core_chunks) |->
                                  ComputeEmbedding(core_chunks[k], file_tree)]
            IN  /\ chunk_embeddings' = embeddings
                /\ core_chunks' = [k \in 1..Len(core_chunks) |->
                                      [core_chunks[k] EXCEPT !.embedding = <<embeddings[k]>>]]
       ELSE UNCHANGED <<chunk_embeddings, core_chunks>>
    /\ UNCHANGED <<idxVars, detected, chunk_args, chunk_out, file_tree, prev_chunks,
                   config, queryVars, fnVars>>

NextSteps ==
    \/ \E p \in Files, t \in CoreTexts : TreeWrite(p, t)
    \/ \E p \in Files : TreeDelete(p)
    \/ CallBuildFileTree
    \/ CallExtractChunks
    \/ \E encoded \in BOOLEAN : CallComputeEmbeddings(encoded)

SpecSteps == InitCore /\ [][NextSteps]_vars

\* C26: the ContextRetriever holds no embedding, or one embedding per chunk of
\* the index, embedding i made of the content of chunk i.
C26_EmbeddingsAligned ==
    \/ chunk_embeddings = <<>>
    \/ /\ Len(chunk_embeddings) = Len(core_chunks)
       /\ \A i \in 1..Len(core_chunks) :
             /\ chunk_embeddings[i][3] = core_chunks[i].language
             /\ chunk_embeddings[i][4] = core_chunks[i].content

\* ------------------------------------------- the character window chunker, by step

\* The iterations of the while loop that are followed.
MaxIterations == 6

\* The texts, max_chunk_chars and overlap the chunker is given.
MaxWindowText == 4
WindowTexts == UNION { [1..n -> {"a", " "}] : n \in 0..MaxWindowText }
WindowSizes == {1, 2, 3}
WindowOverlaps == {0, 1, 2, 3}

\* A PersistentRepoIndexer made with some max_chunk_chars and overlap, and the
\* text of a file it is about to chunk.
InitWindow ==
    /\ \E text \in WindowTexts, size \in WindowSizes, ov \in WindowOverlaps :
          call_args = <<[text |-> text, max_chunk_chars |-> size, overlap |-> ov]>>
    /\ call_out = None
    /\ fs = Empty
    /\ file_metadata = [i \in Indexers |-> <<>>]
    /\ IdxIdle
    /\ detected = None
    /\ chunk_args = None
    /\ chunk_out = None
    /\ CoreIdle
    /\ PipeIdle

\* _index_file up to the loop: no chunk of a text that is only whitespace;
\* starts lists the value of i at the top of every iteration made.
WindowEnter ==
    /\ call_out = None
    /\ call_out' = <<[i |-> 0, chunks |-> <<>>, starts |-> <<>>,
                      done |-> Blank(call_args[1].text)]>>
    /\ RankUnchanged

\* One iteration of "while i < n"
WindowIterate ==
    /\ call_out # None
    /\ ~call_out[1].done
    /\ Len(call_out[1].starts) < MaxIterations
    /\ LET a == call_args[1]
           s == call_out[1]
           n == Len(a.text)
           j == Min(s.i + a.max_chunk_chars, n)
           piece == SubSeq(a.text, s.i + 1, j)
           this == IF ~Blank(piece) THEN <<[start |-> s.i, end |-> j, text |-> piece]>>
                   ELSE <<>>
           next == Max(j - a.overlap, 0)
       IN  call_out' =
               IF s.i >= n
               THEN <<[s EXCEPT !.done = TRUE]>>
               ELSE <<[i |-> IF j >= n THEN s.i ELSE next,
                       chunks |-> s.chunks \o this,
                       starts |-> Append(s.starts, s.i),
                       done |-> j >= n \/ next >= n]>>
    /\ RankUnchanged

NextWindow == WindowEnter \/ WindowIterate

SpecWindow == InitWindow /\ [][NextWindow]_vars

\* C27: every iteration of the chunking loop starts further in the text than
\* the iteration before it, whatever the text, max_chunk_chars and overlap.
C27_StartAdvances ==
    call_out # None =>
        \A k \in 1..(Len(call_out[1].starts) - 1) :
            call_out[1].starts[k] < call_out[1].starts[k + 1]

\* The last build of the process's indexer went through its file loop with
\* ShibuDB connected and has returned after _save_file_metadata.
AfterSave ==
    /\ Quiescent
    /\ hist.done >= 1
    /\ hist.cycle # {}
    /\ hist.connected
    /\ hist.sameProcess

\* C28: the FileRecord map that _load_file_metadata reads back after
\* _save_file_metadata is the map that was saved, and no two paths of the map
\* are stored under the same metadata key.
C28_SaveLoadRoundTrip ==
    AfterSave =>
        /\ LoadFileMetadata(<<>>, TRUE) = file_metadata[App]
        /\ \A p, q \in FmKeys(file_metadata[App]) :
              p # q => SafeKey(PathOf(p)) # SafeKey(PathOf(q))

\* C29: after a build(force_rebuild=True) that met no failure, the store holds
\* of every tracked file the chunks and vectors of its content as it is now and
\* no other, and of a file that is not in the tree no vector, no chunk metadata,
\* no chunk list and no manifest line: what a first build on an empty store
\* leaves.
C29_ForcedRebuildLeavesNoStaleData ==
    (AfterBuild /\ hist.force /\ hist.connected /\ hist.faults = 0) =>
        \A p \in Files :
            IF p \in Tracked
            THEN /\ VectorsOf(p) = CurrentIds(p)
                 /\ ChunkMetasOf(p) = CurrentIds(p)
            ELSE /\ VectorsOf(p) = {}
                 /\ ChunkMetasOf(p) = {}
                 /\ ~Has(meta, FileChunksKey(p))
                 /\ Has(meta, ListKey) => RelPath(p) \notin Range(meta[ListKey])

\* --------------------------------------------- which files of a tree are tracked

\* The directories a repository is made in, and the files of its tree, by their
\* paths under the root.
RepoRoots == { <<"home", "repo">>, <<"tmp", "repo">>, <<"build", "repo">> }
TreeFiles == Files \cup { <<"build", "c.py">>, <<"README">>, <<"a", "node_modules", "b.py">> }

\* An indexer made for a repository in some directory, with some of the files.
InitTrack ==
    /\ \E root \in RepoRoots, present \in SUBSET TreeFiles :
          call_args = <<[repo_root |-> root, present |-> present]>>
    /\ call_out = None
    /\ fs = Empty
    /\ file_metadata = [i \in Indexers |-> <<>>]
    /\ IdxIdle
    /\ detected = None
    /\ chunk_args = None
    /\ chunk_out = None
    /\ CoreIdle
    /\ PipeIdle

\* The scan of _get_changed_files: the files of rglob that _should_index accepts.
ScanTracked ==
    /\ call_out = None
    /\ call_out' = <<[by |-> "_should_index",
                      tracked |-> { p \in call_args[1].present :
                                      ShouldIndexUnder(call_args[1].repo_root, p) }]>>
    /\ RankUnchanged

\* The scan of build_file_tree: the files of rglob that _should_ignore lets pass.
ScanFileTree ==
    /\ call_out = None
    /\ call_out' = <<[by |-> "_should_ignore",
                      tracked |-> { p \in call_args[1].present :
                                      ~ShouldIgnoreUnder(call_args[1].repo_root, p) }]>>
    /\ RankUnchanged

NextTrack == ScanTracked \/ ScanFileTree

SpecTrack == InitTrack /\ [][NextTrack]_vars

\* C30: a file of the tree is tracked exactly when its extension is a code
\* extension and no segment of its path under the repository root is an ignored
\* directory, wherever the repository lies.
C30_TrackedByRelativePath ==
    call_out # None =>
        \A p \in call_args[1].present :
            p \in call_out[1].tracked
            <=> (/\ Suffix(p) \in CODE_EXTS
                 /\ \A k \in 1..Len(p) : p[k] \notin IGNORE_DIRS)

====
